---------------------------- MODULE Spec2Model ----------------------------
(***************************************************************************)
(* Model of the touch gesture engine of easy_touch.py (class Touch): the   *)
(* edge interrupt handler, the periodic poll callback, the gesture         *)
(* classifier and the query methods of the public API.                     *)
(*                                                                         *)
(* Handlers and API calls are atomic steps.  The third component of a      *)
(* trajectory entry (the ticks_ms() timestamp) is never read by the code   *)
(* (start_time / end_time are dead stores in _process_gesture), so a       *)
(* trajectory entry is the pair <<x, y>>.                                  *)
(***************************************************************************)
EXTENDS Integers, Sequences, FiniteSets, TLC

---------------------------------------------------------------------------
(* Program constants *)

MIN_SWIPE_DISTANCE == 30
MAX_TAP_DISTANCE == 8
irq_debounce_ms == 20
width == 320
height == 240
RAW_VALID_MIN == 100
RAW_VALID_MAX == 3900
MAX_POSITIONS == 50
KEEP_POSITIONS == 25

---------------------------------------------------------------------------
(* Bounds of the model *)

\* number of edges accepted by the debounce gate in one behaviour
MaxEdges == 4
\* longest trajectory collected for one contact in this model
MaxTraj == 2

---------------------------------------------------------------------------
(* Inputs *)

\* Python None for an optional point / optional reading / optional bounds
NoneVal == <<>>

\* ADC readings the controller can return: four contact positions and
\* the reading of a floating panel
RawReadings == { <<1145, 1376>>, <<1145, 1328>>, <<1145, 1200>>,
                 <<920, 1376>>, <<0, 0>> }

\* reading of a panel that is not being touched
FloatingReadings == { <<0, 0>> }

\* time elapsed between the last accepted edge and the edge being handled
EdgeGaps == { irq_debounce_ms, irq_debounce_ms + 1 }

NoDirection == "<None>"
DirectionArgs == { NoDirection, "left", "right", "up", "down", "LEFT", "diagonal" }
Directions == { "left", "right", "up", "down" }

\* bounds arguments (x, y, w, h)
BoundsArgs == { NoneVal, <<90, 90, 50, 20>> }

\* calibration defaults of __init__
DEFAULT_X_MIN == 100
DEFAULT_X_MAX == 1962
DEFAULT_Y_MIN == 100
DEFAULT_Y_MAX == 1900

\* interactive calibration: the targets, the polls one hold takes, the
\* corner inset and the number of captured points the derivation needs
cal_points == << <<20, 20>>, <<300, 20>>, <<300, 220>>, <<20, 220>>, <<160, 120>> >>
HOLD_POLLS == 10
CAL_INSET == 20
cal_screen_width == 300 - 20
cal_screen_height == 220 - 20
MIN_CAL_POINTS == 4

\* an optional argument: {} is Python None, {v} is the value v
NoneOpt == {}
Opt(v) == {v}

\* panels: the reading under each of the five targets.  PanelPlain has raw
\* x growing with screen x and raw y with screen y; PanelRotated has the
\* axes exchanged and both reversed; PanelStuck returns one reading
\* wherever it is pressed
PanelPlain == << <<400, 500>>, <<3200, 500>>, <<3200, 2500>>, <<400, 2500>>,
                 <<1800, 1500>> >>
PanelRotated == << <<2500, 3200>>, <<2500, 400>>, <<500, 400>>, <<500, 3200>>,
                   <<1500, 1800>> >>
PanelStuck == << <<1800, 1500>>, <<1800, 1500>>, <<1800, 1500>>, <<1800, 1500>>,
                 <<1800, 1500>> >>
Panels == { PanelPlain, PanelRotated, PanelStuck }

\* what can happen to the write of the calibration file: it succeeds,
\* open() fails and the file keeps its content, or the write fails after
\* open() truncated the file
WriteOutcomes == { "ok", "open_fails", "write_fails" }

\* constructor arguments: the three orientation overrides and auto_calibrate
CtorArgs ==
    { [flip_x |-> fx, flip_y |-> fy, swap_xy |-> sw, auto_calibrate |-> ac] :
        fx \in { NoneOpt }, fy \in { NoneOpt, Opt(FALSE) },
        sw \in { NoneOpt, Opt(FALSE) }, ac \in BOOLEAN }

\* arguments of calibrate(): nothing, all four bounds, a lower x bound equal
\* to the default upper one, a lower x bound above it
CalibrateArgs ==
    { [x_min |-> NoneOpt, x_max |-> NoneOpt, y_min |-> NoneOpt, y_max |-> NoneOpt],
      [x_min |-> Opt(200), x_max |-> Opt(3400), y_min |-> Opt(300), y_max |-> Opt(2700)],
      [x_min |-> Opt(1962), x_max |-> NoneOpt, y_min |-> NoneOpt, y_max |-> NoneOpt],
      [x_min |-> Opt(3000), x_max |-> NoneOpt, y_min |-> NoneOpt, y_max |-> NoneOpt] }

\* calibration bounds <<x_min, x_max, y_min, y_max>> of the conversion study
BoundsChoices == { <<100, 1962, 100, 1900>>, <<200, 3400, 300, 2700>>,
                   <<3000, 1962, 100, 1900>> }

\* raw inputs of the conversion study: the corners of the bounds above,
\* interior points and the corners of the valid window
NormInputs == { <<100, 100>>, <<1962, 1900>>, <<200, 300>>, <<3400, 2700>>,
                <<3000, 100>>, <<1900, 1962>>, <<2700, 3400>>, <<1031, 1000>>,
                <<1145, 1376>>, <<500, 2500>>, <<3900, 100>>, <<3900, 3900>> }

---------------------------------------------------------------------------
VARIABLES
    \* calibration parameters and conversion factors (factor = <<num, den>>)
    x_min, x_max, y_min, y_max, flip_x, flip_y, swap_xy, x_factor, y_factor,
    \* contact-detect line: 0 while the panel is touched, 1 otherwise
    irq_pin,
    \* event flags and positions
    was_touched, was_swiped_up, was_swiped_down, was_swiped_left, was_swiped_right,
    last_touch_x, last_touch_y, current_touch_x, current_touch_y,
    is_currently_touched, touch_count,
    \* gesture tracking
    touch_down, start_x, start_y, touch_positions, last_irq_time, timer_active,
    \* observation of the foreground: the last API call since the last
    \* handler invocation, and the value it returned
    last_call, ret,
    \* history: taps classified since the last get_touches / clear_touch_history
    taps_since_get,
    \* history: taps classified since the last was_touched / clear_touch_history
    taps_since_check,
    \* history: swipes classified since the swipe flags were last consumed
    latched,
    \* history: end point of the last contact classified as tap or swipe
    last_gesture_end,
    \* touch_calibration.json on the flash file system
    cal_file,
    \* module flag _display_available: easy_display could be imported
    display_available,
    \* the panel: the ADC reading it returns under each calibration target
    panel,
    \* life of the Touch object: "none", "constructing" (inside __init__) or "live"
    obj,
    \* exception that escaped from the last call, "none" when it returned
    raised,
    \* _auto_calibrate_with_display: position in the procedure and its locals
    cal_pc, cal_index, hold_time, touch_samples, raw_points,
    \* history: the calibration parameters when the calibration run started
    cal_before,
    \* argument of the last _normalize call
    arg,
    \* Radio: _group, _message_queue, _max_queue_size, _stats, _last_error
    group, message_queue, max_queue_size, stats, last_error,
    \* reading of ticks_ms() in the receive callback: one tick per frame taken
    \* from the driver
    ticks,
    \* Radio: _channel, and whether _espnow is set up (not None)
    channel, radio_open,
    \* receive_all: position in the function and its local messages
    recv_pc, messages,
    \* Display: _pixel_buffer, _buffering_enabled
    pixel_buffer, buffering_enabled,
    \* the colour of each pixel of the panel
    lcd,
    \* _raw_touch: level of the device-select pin cs, position in the
    \* function and its locals x_raw, y_raw (sample_x, sample_y)
    cs, sample_pc, sample_x, sample_y,
    \* history: timer callbacks run in this behaviour
    polls,
    \* get_touches: position in the function and its local count
    get_pc, count

calVars == <<x_min, x_max, y_min, y_max, flip_x, flip_y, swap_xy, x_factor, y_factor>>
swipeFlags == <<was_swiped_up, was_swiped_down, was_swiped_left, was_swiped_right>>
eventVars == <<was_touched, was_swiped_up, was_swiped_down, was_swiped_left,
               was_swiped_right, last_touch_x, last_touch_y, touch_count>>
liveVars == <<current_touch_x, current_touch_y, is_currently_touched, touch_down,
              touch_positions, timer_active>>
engineVars == <<eventVars, liveVars, start_x, start_y, last_irq_time>>
histVars == <<taps_since_get, taps_since_check, latched, last_gesture_end>>
lifeVars == <<cal_file, display_available, panel, obj, raised>>
runVars == <<cal_pc, cal_index, hold_time, touch_samples, raw_points, cal_before>>
linkVars == <<channel, radio_open, recv_pc, messages>>
radioVars == <<group, message_queue, max_queue_size, stats, last_error, ticks, linkVars>>
displayVars == <<pixel_buffer, buffering_enabled, lcd>>
samplerVars == <<cs, sample_pc, sample_x, sample_y>>
foreVars == <<get_pc, count>>
periphVars == <<radioVars, displayVars, samplerVars, polls, foreVars>>
sysVars == <<lifeVars, runVars, arg, periphVars>>
touchVars == <<calVars, irq_pin, engineVars, histVars, lifeVars, runVars, arg>>
configVars == <<calVars, sysVars>>
vars == <<calVars, irq_pin, engineVars, last_call, ret, histVars, sysVars>>

---------------------------------------------------------------------------
(* Pure helpers *)

Abs(n) == IF n < 0 THEN -n ELSE n

\* int(n / d): Python's int() truncates toward zero
TruncDiv(n, d) ==
    IF (n >= 0) = (d > 0) THEN Abs(n) \div Abs(d) ELSE -(Abs(n) \div Abs(d))

Min(a, b) == IF a < b THEN a ELSE b
Max(a, b) == IF a > b THEN a ELSE b

\* _raw_touch: the reading, or None when it is outside the valid window
RawTouch(reading) ==
    IF \/ reading[1] < RAW_VALID_MIN \/ reading[1] > RAW_VALID_MAX
       \/ reading[2] < RAW_VALID_MIN \/ reading[2] > RAW_VALID_MAX
    THEN NoneVal
    ELSE reading

\* variant: the result is not clamped
Normalize_NoClamp(x_raw, y_raw) ==
    LET xr == IF swap_xy THEN y_raw ELSE x_raw
        yr == IF swap_xy THEN x_raw ELSE y_raw
        sx0 == TruncDiv((xr - x_min) * x_factor[1], x_factor[2])
        sy0 == TruncDiv((yr - y_min) * y_factor[1], y_factor[2])
        sx1 == IF flip_x THEN width - 1 - sx0 ELSE sx0
        sy1 == IF flip_y THEN height - 1 - sy0 ELSE sy0
    IN  << sx1, sy1 >>

\* variant: the result is clamped to the dimension, not to dimension - 1
Normalize_ClampToDimension(x_raw, y_raw) ==
    LET xr == IF swap_xy THEN y_raw ELSE x_raw
        yr == IF swap_xy THEN x_raw ELSE y_raw
        sx0 == TruncDiv((xr - x_min) * x_factor[1], x_factor[2])
        sy0 == TruncDiv((yr - y_min) * y_factor[1], y_factor[2])
        sx1 == IF flip_x THEN width - 1 - sx0 ELSE sx0
        sy1 == IF flip_y THEN height - 1 - sy0 ELSE sy0
    IN  << Max(0, Min(sx1, width)), Max(0, Min(sy1, height)) >>

\* variant: the axes are exchanged after the rescale, on the screen values
Normalize_SwapAfterRescale(x_raw, y_raw) ==
    LET sx0 == TruncDiv((x_raw - x_min) * x_factor[1], x_factor[2])
        sy0 == TruncDiv((y_raw - y_min) * y_factor[1], y_factor[2])
        sxs == IF swap_xy THEN sy0 ELSE sx0
        sys == IF swap_xy THEN sx0 ELSE sy0
        sx1 == IF flip_x THEN width - 1 - sxs ELSE sxs
        sy1 == IF flip_y THEN height - 1 - sys ELSE sys
    IN  << Max(0, Min(sx1, width - 1)), Max(0, Min(sy1, height - 1)) >>

\* variant: the flip is applied before the rescale, on the raw values
Normalize_FlipBeforeRescale(x_raw, y_raw) ==
    LET xr == IF swap_xy THEN y_raw ELSE x_raw
        yr == IF swap_xy THEN x_raw ELSE y_raw
        xf == IF flip_x THEN width - 1 - xr ELSE xr
        yf == IF flip_y THEN height - 1 - yr ELSE yr
        sx0 == TruncDiv((xf - x_min) * x_factor[1], x_factor[2])
        sy0 == TruncDiv((yf - y_min) * y_factor[1], y_factor[2])
    IN  << Max(0, Min(sx0, width - 1)), Max(0, Min(sy0, height - 1)) >>

\* _normalize: raw coordinates to screen coordinates
Normalize(x_raw, y_raw) ==
    LET xr == IF swap_xy THEN y_raw ELSE x_raw
        yr == IF swap_xy THEN x_raw ELSE y_raw
        sx0 == TruncDiv((xr - x_min) * x_factor[1], x_factor[2])
        sy0 == TruncDiv((yr - y_min) * y_factor[1], y_factor[2])
        sx1 == IF flip_x THEN width - 1 - sx0 ELSE sx0
        sy1 == IF flip_y THEN height - 1 - sy0 ELSE sy0
    IN  << Max(0, Min(sx1, width - 1)), Max(0, Min(sy1, height - 1)) >>

\* variant: the tap threshold taken exclusive
IsTap_Exclusive(dx, dy) == dx * dx + dy * dy < MAX_TAP_DISTANCE * MAX_TAP_DISTANCE

\* distance <= MAX_TAP_DISTANCE, with distance = (dx*dx + dy*dy)**0.5
IsTap(dx, dy) == dx * dx + dy * dy <= MAX_TAP_DISTANCE * MAX_TAP_DISTANCE

\* variant: the swipe threshold taken exclusive
IsSwipe_Exclusive(dx, dy) == dx * dx + dy * dy > MIN_SWIPE_DISTANCE * MIN_SWIPE_DISTANCE

\* variant: everything that is not a tap is a swipe
IsSwipe_NoDeadZone(dx, dy) == dx * dx + dy * dy > MAX_TAP_DISTANCE * MAX_TAP_DISTANCE

\* distance >= MIN_SWIPE_DISTANCE
IsSwipe(dx, dy) == dx * dx + dy * dy >= MIN_SWIPE_DISTANCE * MIN_SWIPE_DISTANCE

\* variant: a displacement with |dx| = |dy| taken as horizontal
SwipeDirection_TieHorizontal(dx, dy) ==
    IF Abs(dx) >= Abs(dy)
    THEN (IF dx > 0 THEN "right" ELSE "left")
    ELSE (IF dy > 0 THEN "down" ELSE "up")

\* direction of a swipe with displacement (dx, dy)
SwipeDirection(dx, dy) ==
    IF Abs(dx) > Abs(dy)
    THEN (IF dx > 0 THEN "right" ELSE "left")
    ELSE (IF dy > 0 THEN "down" ELSE "up")

\* x <= px <= x + w and y <= py <= y + h
InBounds(px, py, bounds) ==
    /\ bounds[1] <= px /\ px <= bounds[1] + bounds[3]
    /\ bounds[2] <= py /\ py <= bounds[2] + bounds[4]

\* str.lower() on the direction arguments of the model
Lower(s) == IF s = "LEFT" THEN "left" ELSE s

---------------------------------------------------------------------------
(* State after construction: no calibration file, default parameters *)

\* a dict read from JSON is a function on its keys; {} is the empty one
EmptyDict == <<>>
DictGet(d, k, default) == IF k \in DOMAIN d THEN d[k] ELSE default

\* value of an optional argument, default when it is None
OptGet(o, default) == IF o = NoneOpt THEN default ELSE CHOOSE v \in o : TRUE

\* the fields __init__ sets after _setup_touch, and the contact-detect line
EngineInit ==
    /\ irq_pin = 1
    /\ was_touched = FALSE
    /\ was_swiped_up = FALSE /\ was_swiped_down = FALSE
    /\ was_swiped_left = FALSE /\ was_swiped_right = FALSE
    /\ last_touch_x = -1 /\ last_touch_y = -1
    /\ current_touch_x = -1 /\ current_touch_y = -1
    /\ is_currently_touched = FALSE
    /\ touch_count = 0
    /\ touch_down = FALSE
    /\ start_x = 0 /\ start_y = 0
    /\ touch_positions = <<>>
    /\ last_irq_time = 0
    /\ timer_active = FALSE

\* nothing classified yet
HistInit ==
    /\ taps_since_get = 0 /\ taps_since_check = 0
    /\ latched = {}
    /\ last_gesture_end = <<-1, -1>>

\* no calibration procedure is running
RunIdle ==
    /\ cal_pc = "idle" /\ cal_index = 0 /\ hold_time = 0
    /\ touch_samples = <<>> /\ raw_points = <<>>
    /\ cal_before = NoneVal

\* the parameters of a Touch() that found no calibration file
DefaultCalibration ==
    /\ flip_x = TRUE /\ flip_y = TRUE /\ swap_xy = TRUE
    /\ x_min = DEFAULT_X_MIN /\ x_max = DEFAULT_X_MAX
    /\ y_min = DEFAULT_Y_MIN /\ y_max = DEFAULT_Y_MAX
    /\ x_factor = <<width, DEFAULT_X_MAX - DEFAULT_X_MIN>>
    /\ y_factor = <<height, DEFAULT_Y_MAX - DEFAULT_Y_MIN>>

\* COLORS["black"], COLORS["white"], COLORS["red"] as 16-bit values
BLACK == 0
WHITE == 65535
RED == 63488
\* _buffered_pixel writes directly once the buffer holds this many pixels
MAX_BUFFERED_PIXELS == 500

\* colours given to the drawing calls
Colours == {WHITE, RED}

\* end points of the diagonal lines drawn: x2 - x1 = y2 - y1 = n
ShortLine == <<<<0, 0>>, 1>>
LongLine == <<<<5, 5>>, 11>>
Lines == {ShortLine, LongLine}

\* the pixels Bresenham's algorithm visits on a diagonal, in order
LinePixels(line) == [i \in 1..(line[2] + 1) |-> <<line[1][1] + i - 1, line[1][2] + i - 1>>]

\* coordinates given to draw_pixel: two on the panel, one off it
PixelArgs == { <<0, 0>>, <<1, 0>>, <<width, 0>> }

\* the pixels of the panel some call of the model can write
PanelPixels ==
    { p \in PixelArgs : p[1] < width /\ p[2] < height }
      \cup UNION { { LinePixels(l)[i] : i \in DOMAIN LinePixels(l) } : l \in Lines }

\* the fields of Display() after construction: clear() has painted the panel
DisplayDefault ==
    /\ pixel_buffer = {}
    /\ buffering_enabled = FALSE
    /\ lcd = [p \in PanelPixels |-> BLACK]

\* the select pin after _setup_touch (Pin(33, Pin.OUT, value=1)), no
\* _raw_touch call in progress and x_raw, y_raw not assigned (-1), no timer
\* callback run yet, no get_touches() call in progress
SamplerIdle ==
    /\ cs = 1
    /\ sample_pc = "idle"
    /\ sample_x = -1 /\ sample_y = -1
    /\ polls = 0
    /\ get_pc = "idle" /\ count = 0

NoStats == [sent |-> 0, received |-> 0, errors |-> 0]

\* Radio() with the default arguments: no channel recorded, the driver set
\* up, no receive_all() in progress
LinkDefault ==
    /\ channel = NoneOpt
    /\ radio_open = TRUE
    /\ recv_pc = "idle" /\ messages = <<>>

\* the fields of Radio() constructed with the default arguments
RadioDefault ==
    /\ group = 1
    /\ message_queue = <<>>
    /\ max_queue_size = 10
    /\ stats = NoStats
    /\ last_error = "none"
    /\ ticks = 0
    /\ LinkDefault

Init ==
    /\ DefaultCalibration
    /\ EngineInit
    /\ last_call = "none" /\ ret = NoneVal
    /\ HistInit
    /\ cal_file = [kind |-> "absent"]
    /\ display_available = FALSE
    /\ panel = PanelRotated
    /\ obj = "live"
    /\ raised = "none"
    /\ RunIdle
    /\ arg = NoneVal
    /\ RadioDefault
    /\ DisplayDefault
    /\ SamplerIdle

---------------------------------------------------------------------------
(* Interrupt handler, timer and classifier *)

\* variant: the timer is not started
StartTimerPolling_NoInit == UNCHANGED timer_active

\* _start_timer_polling
StartTimerPolling == timer_active' = TRUE

\* variant: stopping the timer leaves it running
StopTimerPolling_KeepsRunning == UNCHANGED timer_active

\* _stop_timer_polling
StopTimerPolling == timer_active' = FALSE

\* variant: latching one direction drops the other directions
SetSwipeFlag_ClearsOthers(dir) ==
    /\ was_swiped_right' = (dir = "right")
    /\ was_swiped_left' = (dir = "left")
    /\ was_swiped_down' = (dir = "down")
    /\ was_swiped_up' = (dir = "up")

\* sets the sticky flag of one direction, the others keep their value
SetSwipeFlag(dir) ==
    /\ was_swiped_right' = (was_swiped_right \/ dir = "right")
    /\ was_swiped_left' = (was_swiped_left \/ dir = "left")
    /\ was_swiped_down' = (was_swiped_down \/ dir = "down")
    /\ was_swiped_up' = (was_swiped_up \/ dir = "up")

\* _process_gesture: classify the trajectory by its first and last point
ProcessGesture ==
    IF Len(touch_positions) < 1
    THEN UNCHANGED <<start_x, start_y, eventVars>>
    ELSE LET first == touch_positions[1]
             last == touch_positions[Len(touch_positions)]
             dx == last[1] - first[1]
             dy == last[2] - first[2]
         IN  /\ start_x' = first[1]
             /\ start_y' = first[2]
             /\ last_touch_x' = last[1]
             /\ last_touch_y' = last[2]
             /\ IF IsTap(dx, dy)
                THEN /\ was_touched' = TRUE
                     /\ touch_count' = touch_count + 1
                     /\ UNCHANGED swipeFlags
                ELSE IF IsSwipe(dx, dy)
                THEN /\ SetSwipeFlag(SwipeDirection(dx, dy))
                     /\ UNCHANGED <<was_touched, touch_count>>
                ELSE UNCHANGED <<was_touched, touch_count, swipeFlags>>

\* variant: the gate opens when exactly the debounce interval has elapsed
DebounceElapsed_Inclusive(current_time) ==
    current_time - last_irq_time >= irq_debounce_ms

\* the debounce gate: ticks_diff(current_time, _last_irq_time) > _irq_debounce_ms
DebounceElapsed(current_time) ==
    current_time - last_irq_time > irq_debounce_ms

\* _touch_irq_handler, entered at time current_time with the line at irq_pin';
\* reading is what the controller returns if the handler samples it
TouchIrqHandler(current_time, reading) ==
    IF DebounceElapsed(current_time)
    THEN /\ last_irq_time' = current_time
         /\ LET is_touch_down_now == (irq_pin' = 0)
                raw_pos == RawTouch(reading)
            IN  IF is_touch_down_now /\ ~touch_down
                THEN IF raw_pos # NoneVal
                     THEN LET screen == Normalize(raw_pos[1], raw_pos[2])
                          IN  /\ touch_down' = TRUE
                              /\ start_x' = screen[1]
                              /\ start_y' = screen[2]
                              /\ current_touch_x' = screen[1]
                              /\ current_touch_y' = screen[2]
                              /\ is_currently_touched' = TRUE
                              /\ touch_positions' = << screen >>
                              /\ StartTimerPolling
                              /\ UNCHANGED eventVars
                     ELSE UNCHANGED <<eventVars, liveVars, start_x, start_y>>
                ELSE IF ~is_touch_down_now /\ touch_down
                THEN /\ touch_down' = FALSE
                     /\ is_currently_touched' = FALSE
                     /\ StopTimerPolling
                     /\ ProcessGesture
                     /\ touch_positions' = <<>>
                     /\ UNCHANGED <<current_touch_x, current_touch_y>>
                ELSE UNCHANGED <<eventVars, liveVars, start_x, start_y>>
    ELSE UNCHANGED engineVars

\* history of classified gestures, kept beside the handler: a contact that
\* ends is a tap when its displacement is at most MAX_TAP_DISTANCE and a
\* swipe when it is at least MIN_SWIPE_DISTANCE
RecordGesture ==
    IF touch_down /\ ~touch_down' /\ Len(touch_positions) >= 1
    THEN LET first == touch_positions[1]
             last == touch_positions[Len(touch_positions)]
             dx == last[1] - first[1]
             dy == last[2] - first[2]
             d2 == dx * dx + dy * dy
             tap == d2 <= MAX_TAP_DISTANCE * MAX_TAP_DISTANCE
             swipe == d2 >= MIN_SWIPE_DISTANCE * MIN_SWIPE_DISTANCE
             dir == IF Abs(dx) > Abs(dy)
                    THEN (IF dx > 0 THEN "right" ELSE "left")
                    ELSE (IF dy > 0 THEN "down" ELSE "up")
         IN  /\ taps_since_get' = IF tap THEN taps_since_get + 1 ELSE taps_since_get
             /\ taps_since_check' = IF tap THEN taps_since_check + 1 ELSE taps_since_check
             /\ latched' = IF swipe
                           THEN latched \cup {[dir |-> dir, start |-> first, end |-> last]}
                           ELSE latched
             /\ last_gesture_end' = IF tap \/ swipe THEN last ELSE last_gesture_end
    ELSE UNCHANGED histVars

\* falling edge of the contact-detect line: the panel is pressed
PressEdge(gap, reading) ==
    /\ irq_pin = 1
    /\ last_irq_time + gap <= MaxEdges * (irq_debounce_ms + 1)
    /\ irq_pin' = 0
    /\ TouchIrqHandler(last_irq_time + gap, reading)
    /\ RecordGesture
    /\ last_call' = "none" /\ ret' = NoneVal
    /\ UNCHANGED configVars

\* rising edge of the contact-detect line: the panel is released
ReleaseEdge(gap) ==
    /\ irq_pin = 0
    /\ last_irq_time + gap <= MaxEdges * (irq_debounce_ms + 1)
    /\ irq_pin' = 1
    /\ TouchIrqHandler(last_irq_time + gap, NoneVal)
    /\ RecordGesture
    /\ last_call' = "none" /\ ret' = NoneVal
    /\ UNCHANGED configVars

\* variant: the oldest points are kept when the history is cut
LimitPositions_KeepsOldest(positions) ==
    IF Len(positions) > MAX_POSITIONS
    THEN SubSeq(positions, 1, KEEP_POSITIONS)
    ELSE positions

\* the history limit of the timer callback: more than 50 points are cut to
\* the last 25 (self._touch_positions[-25:])
LimitPositions(positions) ==
    IF Len(positions) > MAX_POSITIONS
    THEN SubSeq(positions, Len(positions) - KEEP_POSITIONS + 1, Len(positions))
    ELSE positions

\* variant: a sample that is not valid ends the polling
SkipSample_StopsTimer ==
    /\ StopTimerPolling
    /\ UNCHANGED <<current_touch_x, current_touch_y, touch_positions>>

\* the timer callback when _raw_touch returned None: nothing is recorded
SkipSample ==
    UNCHANGED <<current_touch_x, current_touch_y, touch_positions, timer_active>>

\* _timer_poll_callback: one period of the polling timer
TimerPollCallback(reading) ==
    /\ IF touch_down
       THEN LET raw_pos == RawTouch(reading)
            IN  IF raw_pos # NoneVal
                THEN LET screen == Normalize(raw_pos[1], raw_pos[2])
                         appended == Append(touch_positions, screen)
                     IN  /\ current_touch_x' = screen[1]
                         /\ current_touch_y' = screen[2]
                         /\ touch_positions' = LimitPositions(appended)
                         /\ UNCHANGED timer_active
                ELSE SkipSample
       ELSE /\ StopTimerPolling
            /\ UNCHANGED <<current_touch_x, current_touch_y, touch_positions>>
    /\ UNCHANGED <<eventVars, is_currently_touched, touch_down, start_x, start_y,
                   last_irq_time>>

\* the timer fires while it is initialised; a touched panel returns any
\* reading, a floating panel an out-of-range one
TimerPoll(reading) ==
    /\ timer_active
    /\ reading \in (IF irq_pin = 0 THEN RawReadings ELSE FloatingReadings)
    /\ RawTouch(reading) # NoneVal => Len(touch_positions) < MaxTraj
    /\ TimerPollCallback(reading)
    /\ last_call' = "none" /\ ret' = NoneVal
    /\ UNCHANGED <<configVars, irq_pin, histVars>>

---------------------------------------------------------------------------
(* Public API *)

\* variant: is_touched() reports the position of the press
IsTouched_PressPosition ==
    /\ last_call' = "is_touched"
    /\ ret' = IF is_currently_touched THEN <<start_x, start_y>> ELSE NoneVal
    /\ UNCHANGED <<configVars, irq_pin, engineVars, histVars>>

\* is_touched()
IsTouched ==
    /\ last_call' = "is_touched"
    /\ ret' = IF is_currently_touched
              THEN <<current_touch_x, current_touch_y>>
              ELSE NoneVal
    /\ UNCHANGED <<configVars, irq_pin, engineVars, histVars>>

\* variant: was_touched() does not clear the flag
WasTouched_NoClear ==
    /\ last_call' = "was_touched"
    /\ ret' = was_touched
    /\ taps_since_check' = 0
    /\ UNCHANGED <<configVars, irq_pin, eventVars, liveVars, start_x, start_y, last_irq_time,
                   taps_since_get, latched, last_gesture_end>>

\* was_touched()
WasTouched ==
    /\ last_call' = "was_touched"
    /\ ret' = was_touched
    /\ was_touched' = FALSE
    /\ taps_since_check' = 0
    /\ UNCHANGED <<configVars, irq_pin, swipeFlags, last_touch_x, last_touch_y, touch_count,
                   liveVars, start_x, start_y, last_irq_time,
                   taps_since_get, latched, last_gesture_end>>

\* variant: get_touches() does not reset the counter
GetTouches_NoReset ==
    /\ last_call' = "get_touches"
    /\ ret' = touch_count
    /\ taps_since_get' = 0
    /\ UNCHANGED <<configVars, irq_pin, eventVars, liveVars, start_x, start_y, last_irq_time,
                   taps_since_check, latched, last_gesture_end>>

\* get_touches()
GetTouches ==
    /\ last_call' = "get_touches"
    /\ ret' = touch_count
    /\ touch_count' = 0
    /\ taps_since_get' = 0
    /\ UNCHANGED <<configVars, irq_pin, was_touched, swipeFlags, last_touch_x, last_touch_y,
                   liveVars, start_x, start_y, last_irq_time,
                   taps_since_check, latched, last_gesture_end>>

\* the value was_swiped(direction, bounds) returns
WasSwipedResult(direction, bounds) ==
    LET any_swipe == was_swiped_left \/ was_swiped_right \/ was_swiped_up \/ was_swiped_down
        start_in_bounds == InBounds(start_x, start_y, bounds)
        end_in_bounds == InBounds(last_touch_x, last_touch_y, bounds)
    IN  IF ~any_swipe THEN FALSE
        ELSE IF bounds # NoneVal /\ ~(start_in_bounds /\ end_in_bounds) THEN FALSE
        ELSE IF direction = NoDirection THEN any_swipe
        ELSE IF Lower(direction) = "left" THEN was_swiped_left
        ELSE IF Lower(direction) = "right" THEN was_swiped_right
        ELSE IF Lower(direction) = "up" THEN was_swiped_up
        ELSE IF Lower(direction) = "down" THEN was_swiped_down
        ELSE FALSE

\* variant: was_swiped clears the flags whatever its result
ConsumeSwipe_Always(result) ==
    /\ was_swiped_left' = FALSE
    /\ was_swiped_right' = FALSE
    /\ was_swiped_up' = FALSE
    /\ was_swiped_down' = FALSE

\* the flag updates of was_swiped when its result is result
ConsumeSwipe(result) ==
    IF result
    THEN /\ was_swiped_left' = FALSE
         /\ was_swiped_right' = FALSE
         /\ was_swiped_up' = FALSE
         /\ was_swiped_down' = FALSE
    ELSE UNCHANGED swipeFlags

\* variant: a call that finds no matching swipe takes the tap event instead
WasSwiped_TakesTap(direction, bounds) ==
    /\ last_call' = "was_swiped"
    /\ ret' = WasSwipedResult(direction, bounds)
    /\ ConsumeSwipe(WasSwipedResult(direction, bounds))
    /\ latched' = IF ret' THEN {} ELSE latched
    /\ was_touched' = IF ret' THEN was_touched ELSE FALSE
    /\ taps_since_check' = IF ret' THEN taps_since_check ELSE 0
    /\ UNCHANGED <<configVars, irq_pin, last_touch_x, last_touch_y, touch_count,
                   liveVars, start_x, start_y, last_irq_time,
                   taps_since_get, last_gesture_end>>

\* was_swiped(direction, bounds)
WasSwiped(direction, bounds) ==
    /\ last_call' = "was_swiped"
    /\ ret' = WasSwipedResult(direction, bounds)
    /\ ConsumeSwipe(WasSwipedResult(direction, bounds))
    /\ latched' = IF ret' THEN {} ELSE latched
    /\ UNCHANGED <<configVars, irq_pin, was_touched, last_touch_x, last_touch_y, touch_count,
                   liveVars, start_x, start_y, last_irq_time,
                   taps_since_get, taps_since_check, last_gesture_end>>

\* get_last_touch_coords()
GetLastTouchCoords ==
    /\ last_call' = "get_last_touch_coords"
    /\ ret' = <<last_touch_x, last_touch_y>>
    /\ UNCHANGED <<configVars, irq_pin, engineVars, histVars>>

\* variant: clear_touch_history() also drops the contact in progress
ClearTouchHistory_DropsContact ==
    /\ last_call' = "clear_touch_history"
    /\ ret' = NoneVal
    /\ was_touched' = FALSE
    /\ was_swiped_up' = FALSE
    /\ was_swiped_down' = FALSE
    /\ was_swiped_left' = FALSE
    /\ was_swiped_right' = FALSE
    /\ last_touch_x' = -1
    /\ last_touch_y' = -1
    /\ touch_count' = 0
    /\ taps_since_get' = 0 /\ taps_since_check' = 0
    /\ latched' = {}
    /\ last_gesture_end' = <<-1, -1>>
    /\ touch_down' = FALSE
    /\ is_currently_touched' = FALSE
    /\ touch_positions' = <<>>
    /\ UNCHANGED <<configVars, irq_pin, current_touch_x, current_touch_y, timer_active,
                   start_x, start_y, last_irq_time>>

\* clear_touch_history()
ClearTouchHistory ==
    /\ last_call' = "clear_touch_history"
    /\ ret' = NoneVal
    /\ was_touched' = FALSE
    /\ was_swiped_up' = FALSE
    /\ was_swiped_down' = FALSE
    /\ was_swiped_left' = FALSE
    /\ was_swiped_right' = FALSE
    /\ last_touch_x' = -1
    /\ last_touch_y' = -1
    /\ touch_count' = 0
    /\ taps_since_get' = 0 /\ taps_since_check' = 0
    /\ latched' = {}
    /\ last_gesture_end' = <<-1, -1>>
    /\ UNCHANGED <<configVars, irq_pin, liveVars, start_x, start_y, last_irq_time>>

---------------------------------------------------------------------------
Next ==
    \/ \E gap \in EdgeGaps, reading \in RawReadings : PressEdge(gap, reading)
    \/ \E gap \in EdgeGaps : ReleaseEdge(gap)
    \/ \E reading \in RawReadings : TimerPoll(reading)
    \/ IsTouched
    \/ WasTouched
    \/ GetTouches
    \/ \E direction \in DirectionArgs, bounds \in BoundsArgs : WasSwiped(direction, bounds)
    \/ GetLastTouchCoords
    \/ ClearTouchHistory

Spec == Init /\ [][Next]_vars

\* the engine without a foreground: only the edge interrupt and the timer
\* run
NextIdle ==
    \/ \E gap \in EdgeGaps, reading \in RawReadings : PressEdge(gap, reading)
    \/ \E gap \in EdgeGaps : ReleaseEdge(gap)
    \/ \E reading \in RawReadings : TimerPoll(reading)

\* edges come when the user makes them; the periodic timer, once
\* initialised, keeps firing
SpecIdle ==
    /\ Init /\ [][NextIdle]_vars
    /\ WF_vars(\E reading \in RawReadings : TimerPoll(reading))

\* what a statement of get_touches leaves alone besides the counter
getFrame ==
    <<calVars, lifeVars, runVars, arg, radioVars, displayVars, samplerVars, polls,
      irq_pin, was_touched, swipeFlags, last_touch_x, last_touch_y, liveVars,
      start_x, start_y, last_irq_time, taps_since_check, latched, last_gesture_end>>

\* get_touches(): count = self._touch_count
GetTouchesRead ==
    /\ get_pc = "idle"
    /\ count' = touch_count
    /\ get_pc' = "read"
    /\ UNCHANGED <<touch_count, taps_since_get, last_call, ret, getFrame>>

\* get_touches(): self._touch_count = 0; return count
GetTouchesReset ==
    /\ get_pc = "read"
    /\ touch_count' = 0
    /\ ret' = count
    /\ last_call' = "get_touches"
    /\ taps_since_get' = 0
    /\ count' = 0
    /\ get_pc' = "idle"
    /\ UNCHANGED getFrame

\* get_touches() statement by statement, with the edge interrupt and the
\* timer running between any two statements
NextGet ==
    \/ \E gap \in EdgeGaps, reading \in RawReadings : PressEdge(gap, reading)
    \/ \E gap \in EdgeGaps : ReleaseEdge(gap)
    \/ \E reading \in RawReadings : TimerPoll(reading)
    \/ GetTouchesRead
    \/ GetTouchesReset

SpecGet == Init /\ [][NextGet]_vars

---------------------------------------------------------------------------
(* Construction, calibration and persistence.  The value a call of this  *)
(* part returns is kept as an optional: {} for None, {v} for v.           *)

\* __init__ assigns the state fields of the new object
EngineReset ==
    /\ irq_pin' = 1
    /\ was_touched' = FALSE
    /\ was_swiped_up' = FALSE /\ was_swiped_down' = FALSE
    /\ was_swiped_left' = FALSE /\ was_swiped_right' = FALSE
    /\ last_touch_x' = -1 /\ last_touch_y' = -1
    /\ current_touch_x' = -1 /\ current_touch_y' = -1
    /\ is_currently_touched' = FALSE
    /\ touch_count' = 0
    /\ touch_down' = FALSE
    /\ start_x' = 0 /\ start_y' = 0
    /\ touch_positions' = <<>>
    /\ last_irq_time' = 0
    /\ timer_active' = FALSE

\* the new object has classified nothing
HistReset ==
    /\ taps_since_get' = 0 /\ taps_since_check' = 0
    /\ latched' = {}
    /\ last_gesture_end' = <<-1, -1>>

\* the locals of the calibration procedure are gone
RunReset ==
    /\ cal_pc' = "idle" /\ cal_index' = 0 /\ hold_time' = 0
    /\ touch_samples' = <<>> /\ raw_points' = <<>>
    /\ cal_before' = NoneVal

\* no object: the parameter fields hold the defaults again
CalibrationReset ==
    /\ flip_x' = TRUE /\ flip_y' = TRUE /\ swap_xy' = TRUE
    /\ x_min' = DEFAULT_X_MIN /\ x_max' = DEFAULT_X_MAX
    /\ y_min' = DEFAULT_Y_MIN /\ y_max' = DEFAULT_Y_MAX
    /\ x_factor' = <<width, DEFAULT_X_MAX - DEFAULT_X_MIN>>
    /\ y_factor' = <<height, DEFAULT_Y_MAX - DEFAULT_Y_MIN>>

\* _load_calibration: the saved dict, {} when the file is absent or is not
\* JSON (OSError, ValueError)
LoadCalibration == IF cal_file.kind = "json" THEN cal_file.data ELSE EmptyDict

\* _recalculate_factors divides by x_max - x_min, then by y_max - y_min, of
\* the bounds just assigned: ZeroDivisionError for an empty range
RecalcRaises == x_max' = x_min' \/ y_max' = y_min'

\* _recalculate_factors: the assignment before the failing division is kept
RecalculateFactors ==
    /\ x_factor' = IF x_max' # x_min' THEN <<width, x_max' - x_min'>> ELSE x_factor
    /\ y_factor' = IF ~RecalcRaises THEN <<height, y_max' - y_min'>> ELSE y_factor

\* variant: the saved dict carries no 'calibrated' mark
SaveCalibration_Unmarked(outcome) ==
    cal_file' =
        CASE outcome = "ok" ->
               [kind |-> "json",
                data |-> [flip_x |-> flip_x', flip_y |-> flip_y', swap_xy |-> swap_xy',
                          x_min |-> x_min', x_max |-> x_max',
                          y_min |-> y_min', y_max |-> y_max']]
          [] outcome = "open_fails" -> cal_file
          [] OTHER -> [kind |-> "corrupt"]

\* _save_calibration of the parameters just assigned; an OSError is
\* reported by a warning and the call returns
SaveCalibration(outcome) ==
    cal_file' =
        CASE outcome = "ok" ->
               [kind |-> "json",
                data |-> [flip_x |-> flip_x', flip_y |-> flip_y', swap_xy |-> swap_xy',
                          x_min |-> x_min', x_max |-> x_max',
                          y_min |-> y_min', y_max |-> y_max',
                          calibrated |-> TRUE]]
          [] outcome = "open_fails" -> cal_file
          [] OTHER -> [kind |-> "corrupt"]

\* entry of _auto_calibrate_with_display with a display: first target
CalBegin ==
    /\ cal_pc' = "hold" /\ cal_index' = 1 /\ hold_time' = 0
    /\ touch_samples' = <<>> /\ raw_points' = <<>>
    /\ cal_before' = calVars'

\* _auto_calibrate_with_display returns v, to __init__ (which then returns)
\* or to force_calibration (which returns v)
CalReturn(v) ==
    /\ cal_pc' = "idle" /\ cal_index' = 0 /\ hold_time' = 0
    /\ touch_samples' = <<>>
    /\ obj' = "live"
    /\ raised' = "none"
    /\ last_call' = "_auto_calibrate_with_display"
    /\ ret' = Opt(v)

\* an exception leaves _auto_calibrate_with_display and its caller
CalRaise(exception) ==
    /\ cal_pc' = "idle" /\ cal_index' = 0 /\ hold_time' = 0
    /\ touch_samples' = <<>>
    /\ obj' = IF obj = "constructing" THEN "none" ELSE obj
    /\ raised' = exception
    /\ last_call' = "_auto_calibrate_with_display"
    /\ ret' = NoneOpt

\* variant: auto-calibration is started without a display
ShouldAutoCalibrate_IgnoresDisplay(a, saved_config) ==
    /\ a.auto_calibrate
    /\ ~DictGet(saved_config, "calibrated", FALSE)

\* the condition under which __init__ starts the interactive calibration
ShouldAutoCalibrate(a, saved_config) ==
    /\ a.auto_calibrate
    /\ ~DictGet(saved_config, "calibrated", FALSE)
    /\ display_available

\* _setup_touch returns; SPI() or Pin() raise when the bus or the pins
\* cannot be initialised
SetupTouch(hw_ok) == hw_ok

\* Touch(flip_x, flip_y, swap_xy, auto_calibrate) on hardware that can
\* (hw_ok) or cannot be initialised
Construct(a, hw_ok) ==
    /\ obj = "none"
    /\ LET saved_config == LoadCalibration
       IN  /\ flip_x' = OptGet(a.flip_x, DictGet(saved_config, "flip_x", TRUE))
           /\ flip_y' = OptGet(a.flip_y, DictGet(saved_config, "flip_y", TRUE))
           /\ swap_xy' = OptGet(a.swap_xy, DictGet(saved_config, "swap_xy", TRUE))
           /\ x_min' = DictGet(saved_config, "x_min", DEFAULT_X_MIN)
           /\ x_max' = DictGet(saved_config, "x_max", DEFAULT_X_MAX)
           /\ y_min' = DictGet(saved_config, "y_min", DEFAULT_Y_MIN)
           /\ y_max' = DictGet(saved_config, "y_max", DEFAULT_Y_MAX)
           /\ RecalculateFactors
           /\ EngineReset /\ HistReset
           /\ last_call' = "__init__" /\ ret' = NoneOpt
           /\ IF RecalcRaises
              THEN /\ raised' = "ZeroDivisionError" /\ obj' = "none"
                   /\ UNCHANGED runVars
              ELSE IF ~SetupTouch(hw_ok)
              THEN /\ raised' = "OSError" /\ obj' = "none"
                   /\ UNCHANGED runVars
              ELSE /\ raised' = "none"
                   /\ IF ShouldAutoCalibrate(a, saved_config)
                      THEN obj' = "constructing" /\ CalBegin
                      ELSE obj' = "live" /\ UNCHANGED runVars
    /\ UNCHANGED <<cal_file, display_available, panel, arg>>
    /\ UNCHANGED periphVars

\* force_calibration()
ForceCalibration ==
    /\ obj = "live" /\ cal_pc = "idle"
    /\ UNCHANGED <<calVars, irq_pin, engineVars, histVars, lifeVars, arg>>
    /\ last_call' = "force_calibration"
    /\ IF display_available
       THEN CalBegin /\ ret' = NoneOpt
       ELSE ret' = Opt(FALSE) /\ UNCHANGED runVars
    /\ UNCHANGED periphVars

\* what the controller returns during the hold loop: the reading under the
\* current target while it is pressed, the reading of a floating panel otherwise
PanelReading(pressed) ==
    IF pressed /\ cal_index \in DOMAIN panel
    THEN panel[cal_index]
    ELSE CHOOSE reading \in FloatingReadings : TRUE

\* variant: a poll without contact restarts the count and keeps the samples
CalPoll_KeepsSamples(reading, irq_val) ==
    /\ cal_pc = "hold"
    /\ hold_time < HOLD_POLLS
    /\ irq_pin' = irq_val
    /\ LET raw_pos == RawTouch(reading)
       IN  IF raw_pos # NoneVal /\ irq_val = 0
           THEN /\ touch_samples' = Append(touch_samples, raw_pos)
                /\ hold_time' = hold_time + 1
           ELSE /\ touch_samples' = touch_samples
                /\ hold_time' = 0
    /\ cal_pc' = IF hold_time' < HOLD_POLLS THEN "hold" ELSE "capture"
    /\ UNCHANGED <<calVars, engineVars, histVars, lifeVars, arg, last_call, ret,
                   cal_index, raw_points, cal_before>>
    /\ UNCHANGED periphVars

\* one turn of the hold loop: the controller returns reading and the
\* contact-detect line reads irq_val
CalPoll(reading, irq_val) ==
    /\ cal_pc = "hold"
    /\ hold_time < HOLD_POLLS
    /\ irq_pin' = irq_val
    /\ LET raw_pos == RawTouch(reading)
       IN  IF raw_pos # NoneVal /\ irq_val = 0
           THEN /\ touch_samples' = Append(touch_samples, raw_pos)
                /\ hold_time' = hold_time + 1
           ELSE /\ touch_samples' = <<>>
                /\ hold_time' = 0
    /\ cal_pc' = IF hold_time' < HOLD_POLLS THEN "hold" ELSE "capture"
    /\ UNCHANGED <<calVars, engineVars, histVars, lifeVars, arg, last_call, ret,
                   cal_index, raw_points, cal_before>>
    /\ UNCHANGED periphVars

\* sum of the c-th coordinates of a sequence of readings
RECURSIVE SumCoord(_, _)
SumCoord(samples, c) ==
    IF samples = <<>> THEN 0 ELSE Head(samples)[c] + SumCoord(Tail(samples), c)

\* after the hold loop: the averaged sample is captured and the next
\* target is shown, or the procedure gives up when there is no sample
CalCapture ==
    /\ cal_pc = "capture"
    /\ IF touch_samples # <<>>
       THEN LET avg_x == SumCoord(touch_samples, 1) \div Len(touch_samples)
                avg_y == SumCoord(touch_samples, 2) \div Len(touch_samples)
            IN  /\ raw_points' = Append(raw_points, <<avg_x, avg_y>>)
                /\ IF cal_index < Len(cal_points)
                   THEN /\ cal_index' = cal_index + 1
                        /\ cal_pc' = "hold"
                   ELSE /\ cal_index' = cal_index
                        /\ cal_pc' = "compute"
                /\ touch_samples' = <<>>
                /\ hold_time' = 0
                /\ UNCHANGED <<obj, raised, last_call, ret>>
       ELSE /\ CalReturn(FALSE)
            /\ UNCHANGED raw_points
    /\ UNCHANGED <<calVars, irq_pin, engineVars, histVars, cal_file, display_available,
                   panel, arg, cal_before>>
    /\ UNCHANGED periphVars

SetMin(S) == CHOOSE m \in S : \A n \in S : m <= n
SetMax(S) == CHOOSE m \in S : \A n \in S : m >= n

\* after the last target: the parameters are derived from the four corner
\* points, the factors recomputed and the file written
CalCompute(outcome) ==
    /\ cal_pc = "compute"
    /\ IF Len(raw_points) >= MIN_CAL_POINTS
       THEN LET raw_xs == { raw_points[k][1] : k \in 1..4 }
                raw_ys == { raw_points[k][2] : k \in 1..4 }
                raw_x_range == SetMax(raw_xs) - SetMin(raw_xs)
                raw_y_range == SetMax(raw_ys) - SetMin(raw_ys)
                swap == raw_y_range > raw_x_range
                trans_xs == IF swap THEN raw_ys ELSE raw_xs
                trans_ys == IF swap THEN raw_xs ELSE raw_ys
                raw_x_min == SetMin(trans_xs)
                raw_x_max == SetMax(trans_xs)
                raw_y_min == SetMin(trans_ys)
                raw_y_max == SetMax(trans_ys)
                raw_width == raw_x_max - raw_x_min
                raw_height == raw_y_max - raw_y_min
                top_left_raw == raw_points[1]
                top_right_raw == raw_points[2]
                bottom_right_raw == raw_points[3]
                bottom_left_raw == raw_points[4]
                c == IF swap THEN 2 ELSE 1
                r == IF swap THEN 1 ELSE 2
            IN  /\ swap_xy' = swap
                \* int(raw_x_min - 20 * (raw_width / cal_screen_width))
                /\ x_min' = TruncDiv(raw_x_min * cal_screen_width - CAL_INSET * raw_width,
                                     cal_screen_width)
                /\ x_max' = TruncDiv(raw_x_max * cal_screen_width + CAL_INSET * raw_width,
                                     cal_screen_width)
                /\ y_min' = TruncDiv(raw_y_min * cal_screen_height - CAL_INSET * raw_height,
                                     cal_screen_height)
                /\ y_max' = TruncDiv(raw_y_max * cal_screen_height + CAL_INSET * raw_height,
                                     cal_screen_height)
                \* the means of two corners compare as their sums do
                /\ flip_x' = (top_left_raw[c] + bottom_left_raw[c]
                                > top_right_raw[c] + bottom_right_raw[c])
                /\ flip_y' = (bottom_right_raw[r] + bottom_left_raw[r]
                                < top_left_raw[r] + top_right_raw[r])
                /\ RecalculateFactors
                /\ IF RecalcRaises
                   THEN CalRaise("ZeroDivisionError") /\ UNCHANGED cal_file
                   ELSE SaveCalibration(outcome) /\ CalReturn(TRUE)
       ELSE /\ UNCHANGED <<calVars, cal_file>>
            /\ CalReturn(FALSE)
    /\ raw_points' = <<>>
    /\ UNCHANGED <<irq_pin, engineVars, histVars, display_available, panel, arg,
                   cal_before>>
    /\ UNCHANGED periphVars

\* calibrate(x_min, x_max, y_min, y_max, save)
Calibrate(a, save, outcome) ==
    /\ obj = "live" /\ cal_pc = "idle"
    /\ x_min' = OptGet(a.x_min, x_min)
    /\ x_max' = OptGet(a.x_max, x_max)
    /\ y_min' = OptGet(a.y_min, y_min)
    /\ y_max' = OptGet(a.y_max, y_max)
    /\ UNCHANGED <<flip_x, flip_y, swap_xy>>
    /\ RecalculateFactors
    /\ IF RecalcRaises
       THEN raised' = "ZeroDivisionError" /\ UNCHANGED cal_file
       ELSE /\ raised' = "none"
            /\ IF save THEN SaveCalibration(outcome) ELSE UNCHANGED cal_file
    /\ last_call' = "calibrate" /\ ret' = NoneOpt
    /\ UNCHANGED <<irq_pin, engineVars, histVars, display_available, panel, obj,
                   runVars, arg>>
    /\ UNCHANGED periphVars

\* the program ends (reset or power cycle): the object is gone, the file stays
Reboot ==
    /\ obj = "live" /\ cal_pc = "idle"
    /\ obj' = "none"
    /\ CalibrationReset /\ EngineReset /\ HistReset /\ RunReset
    /\ raised' = "none"
    /\ last_call' = "none" /\ ret' = NoneOpt
    /\ UNCHANGED <<cal_file, display_available, panel, arg>>
    /\ UNCHANGED periphVars

\* no Touch object yet; the flash holds no calibration file or one that is
\* not JSON
InitLife ==
    /\ DefaultCalibration
    /\ EngineInit
    /\ last_call = "none" /\ ret = NoneOpt
    /\ HistInit
    /\ cal_file \in { [kind |-> "absent"], [kind |-> "corrupt"] }
    /\ display_available \in BOOLEAN
    /\ panel \in Panels
    /\ obj = "none"
    /\ raised = "none"
    /\ RunIdle
    /\ arg = NoneVal
    /\ RadioDefault
    /\ DisplayDefault
    /\ SamplerIdle

NextLife ==
    \/ \E a \in CtorArgs, hw_ok \in BOOLEAN : Construct(a, hw_ok)
    \/ ForceCalibration
    \/ \E pressed \in BOOLEAN, irq_val \in {0, 1} : CalPoll(PanelReading(pressed), irq_val)
    \/ CalCapture
    \/ \E outcome \in WriteOutcomes : CalCompute(outcome)
    \/ \E a \in CalibrateArgs, save \in BOOLEAN, outcome \in WriteOutcomes :
          Calibrate(a, save, outcome)
    \/ Reboot

SpecLife == InitLife /\ [][NextLife]_vars

\* the calibration procedure runs in the foreground and keeps running: its
\* loop turns, and the statements after the loop are executed
SpecLifeFair ==
    /\ SpecLife
    /\ WF_runVars(\E pressed \in BOOLEAN, irq_val \in {0, 1} :
                     CalPoll(PanelReading(pressed), irq_val))
    /\ WF_runVars(CalCapture)
    /\ WF_runVars(\E outcome \in WriteOutcomes : CalCompute(outcome))

---------------------------------------------------------------------------
(* The conversion on its own: an object with any orientation and any of   *)
(* the bounds, to which _normalize is applied                              *)

InitNorm ==
    /\ flip_x \in BOOLEAN /\ flip_y \in BOOLEAN /\ swap_xy \in BOOLEAN
    /\ \E b \in BoundsChoices :
          /\ x_min = b[1] /\ x_max = b[2] /\ y_min = b[3] /\ y_max = b[4]
          /\ x_factor = <<width, b[2] - b[1]>>
          /\ y_factor = <<height, b[4] - b[3]>>
    /\ EngineInit
    /\ last_call = "none" /\ ret = NoneVal
    /\ HistInit
    /\ cal_file = [kind |-> "absent"]
    /\ display_available = FALSE
    /\ panel = PanelRotated
    /\ obj = "live"
    /\ raised = "none"
    /\ RunIdle
    /\ arg = NoneVal
    /\ RadioDefault
    /\ DisplayDefault
    /\ SamplerIdle

\* _normalize(x_raw, y_raw) with raw = (x_raw, y_raw)
NormalizeCall(raw) ==
    /\ obj = "live"
    /\ arg' = raw
    /\ ret' = Normalize(raw[1], raw[2])
    /\ last_call' = "_normalize"
    /\ UNCHANGED <<calVars, irq_pin, engineVars, histVars, lifeVars, runVars>>
    /\ UNCHANGED periphVars

NextNorm == \E raw \in NormInputs : NormalizeCall(raw)

SpecNorm == InitNorm /\ [][NextNorm]_vars

---------------------------------------------------------------------------
(* easy_radio.Radio: broadcast frames [group][length][payload...], a group  *)
(* filter in the receive callback and a bounded queue of received messages  *)

\* frames taken from the driver in one behaviour
MaxFrames == 3
\* send() calls in one behaviour
MaxSends == 1

\* send() keeps the first 248 characters of the message
MAX_MESSAGE_CHARS == 248
\* the largest value of a byte: bytes([...]) raises ValueError above it
MAX_BYTE == 255
\* set_group and __init__ accept groups 0 .. 255
MAX_GROUP == 255

\* queue_size arguments of Radio(...)
QueueSizes == {0, 1, 2}
\* group arguments of Radio(...) and set_group(...) that pass the validation
Groups == {0, 1, 2}
\* group arguments of set_group(...): the valid ones and one that is refused
GroupArgs == Groups \cup {MAX_GROUP + 1}

\* frames as byte sequences: half a header, a payload shorter than the
\* length byte says, frames of groups 1, 2 and 0, a payload longer than the
\* length byte says, a payload that is not UTF-8
Frames ==
    { <<1>>, <<1, 2, 65>>, <<1, 1, 65>>, <<2, 1, 66>>, <<0, 1, 67>>,
      <<1, 1, 68, 69>>, <<2, 1, 255>> }

\* the frames waiting in the driver when the callback runs, oldest first:
\* one frame or two
Bursts == { <<f>> : f \in Frames } \cup { <<f, g>> : f \in Frames, g \in Frames }

\* messages given to send(): number of characters and bytes per character
\* in UTF-8
SendArgs ==
    { [chars |-> 2, width |-> 1], [chars |-> 300, width |-> 1],
      [chars |-> 200, width |-> 2] }

\* outcome of espnow.send(): the frame left, or the driver raised OSError
SendOutcomes == {"ok", "oserror"}

\* the header is complete and the payload is as long as the length byte says
WellFormed(msg) == Len(msg) >= 2 /\ Len(msg) >= 2 + msg[2]

\* the group filter of a receiver whose group is g
GroupFilter(g, msg) == ~(g # 0 /\ msg[1] # g)

\* message_bytes.decode('utf-8'), str(message_bytes) when that fails: the
\* characters of an ASCII payload, the printed form of another one
Decode(message_bytes) ==
    IF \A i \in 1..Len(message_bytes) : message_bytes[i] < 128
    THEN [printed |-> FALSE, codes |-> message_bytes]
    ELSE [printed |-> TRUE, codes |-> message_bytes]

\* the dictionary built for a frame that passed the filter (one sender:
\* 'sender' and 'rssi' are the same in every message and left out)
MessageInfo(msg, now) ==
    [ text |-> Decode(SubSeq(msg, 3, 2 + msg[2])),
      time |-> now,
      group |-> msg[1] ]

\* queue_message raises IndexError: pop(0) of an empty list
QueueMessageRaises(queue) == Len(queue) >= max_queue_size /\ queue = <<>>

\* queue_message(message_info) when it does not raise
QueueMessage(queue, message_info) ==
    Append(IF Len(queue) >= max_queue_size THEN Tail(queue) ELSE queue,
           message_info)

\* the loop of _on_message_received over the frames irecv(0) returns, from
\* st = the queue, the received counter, the clock and whether an exception
\* left the loop
RECURSIVE Drain(_, _)
Drain(st, frames) ==
    IF frames = <<>> \/ st.failed
    THEN st
    ELSE LET msg == Head(frames)
             now == st.ticks + 1
             taken == [st EXCEPT !.ticks = now]
         IN  IF ~WellFormed(msg) \/ ~GroupFilter(group, msg)
             THEN Drain(taken, Tail(frames))
             ELSE IF QueueMessageRaises(st.queue)
             THEN [taken EXCEPT !.failed = TRUE]
             ELSE Drain([taken EXCEPT
                           !.queue = QueueMessage(st.queue, MessageInfo(msg, now)),
                           !.received = @ + 1],
                        Tail(frames))

\* what a queue action leaves alone: the touch engine, the display, the
\* channel and the position in receive_all
radioFrame ==
    <<calVars, irq_pin, engineVars, histVars, cal_file, display_available,
      panel, obj, runVars, arg, displayVars, samplerVars, polls, foreVars, linkVars>>

\* _on_message_received(espnow_instance) with the given frames waiting;
\* irecv_raises: after them irecv raises instead of returning (None, None)
OnMessageReceived(frames, irecv_raises) ==
    /\ ticks + Len(frames) <= MaxFrames
    /\ LET st == Drain([queue |-> message_queue, received |-> stats.received,
                        ticks |-> ticks, failed |-> FALSE], frames)
           failed == st.failed \/ irecv_raises
       IN  /\ message_queue' = st.queue
           /\ ticks' = st.ticks
           /\ stats' = [stats EXCEPT !.received = st.received,
                                     !.errors = IF failed THEN @ + 1 ELSE @]
           /\ last_error' = IF failed THEN "Message callback error" ELSE last_error
    /\ last_call' = "_on_message_received" /\ ret' = NoneOpt /\ raised' = "none"
    /\ UNCHANGED <<group, max_queue_size, radioFrame>>

\* the value send() hands back: the function has no return statement
SendResult(sent) == NoneOpt

\* send(message)
Send(message, outcome) ==
    /\ stats.sent + stats.errors < MaxSends
    /\ LET kept == Min(message.chars, MAX_MESSAGE_CHARS)
           msg_bytes == kept * message.width
           sent == msg_bytes <= MAX_BYTE /\ outcome = "ok"
       IN  /\ stats' = IF sent THEN [stats EXCEPT !.sent = @ + 1]
                               ELSE [stats EXCEPT !.errors = @ + 1]
           /\ last_error' = IF sent THEN last_error ELSE "Send error"
           /\ ret' = SendResult(sent)
    /\ last_call' = "send" /\ raised' = "none"
    /\ UNCHANGED <<group, message_queue, max_queue_size, ticks, radioFrame>>

\* receive() with timeout_ms = 0
Receive ==
    /\ IF message_queue # <<>>
       THEN ret' = Opt(Head(message_queue)) /\ message_queue' = Tail(message_queue)
       ELSE ret' = NoneOpt /\ UNCHANGED message_queue
    /\ last_call' = "receive" /\ raised' = "none"
    /\ UNCHANGED <<group, max_queue_size, stats, last_error, ticks, radioFrame>>

\* receive_all()
ReceiveAll ==
    /\ ret' = Opt(message_queue)
    /\ message_queue' = <<>>
    /\ last_call' = "receive_all" /\ raised' = "none"
    /\ UNCHANGED <<group, max_queue_size, stats, last_error, ticks, radioFrame>>

\* clear_queue()
ClearQueue ==
    /\ message_queue' = <<>>
    /\ last_call' = "clear_queue" /\ ret' = NoneOpt /\ raised' = "none"
    /\ UNCHANGED <<group, max_queue_size, stats, last_error, ticks, radioFrame>>

\* set_group(g)
SetGroup(g) ==
    /\ IF ~(0 <= g /\ g <= MAX_GROUP)
       THEN raised' = "ValueError" /\ UNCHANGED group
       ELSE raised' = "none" /\ group' = g
    /\ last_call' = "set_group" /\ ret' = NoneOpt
    /\ UNCHANGED <<message_queue, max_queue_size, stats, last_error, ticks, radioFrame>>

\* Radio(queue_size=..., group=...) on a board whose radio initialises; no
\* Touch object is involved
InitRadio ==
    /\ DefaultCalibration
    /\ EngineInit
    /\ last_call = "none" /\ ret = NoneOpt
    /\ HistInit
    /\ cal_file = [kind |-> "absent"]
    /\ display_available = FALSE
    /\ panel = PanelRotated
    /\ obj = "none"
    /\ raised = "none"
    /\ RunIdle
    /\ arg = NoneVal
    /\ group \in Groups
    /\ max_queue_size \in QueueSizes
    /\ message_queue = <<>>
    /\ stats = NoStats
    /\ last_error = "none"
    /\ ticks = 0
    /\ LinkDefault
    /\ DisplayDefault
    /\ SamplerIdle

NextRadio ==
    \/ \E frames \in Bursts : OnMessageReceived(frames, FALSE)
    \/ \E f \in Frames : OnMessageReceived(<<f>>, TRUE)
    \/ \E message \in SendArgs, outcome \in SendOutcomes : Send(message, outcome)
    \/ Receive
    \/ ReceiveAll
    \/ ClearQueue
    \/ \E g \in GroupArgs : SetGroup(g)

SpecRadio == InitRadio /\ [][NextRadio]_vars

---------------------------------------------------------------------------
(* easy_radio.Radio: change of channel, and receive_all() statement by      *)
(* statement with the receive callback running in between                   *)

\* set_channel accepts channels 1 .. 13
MIN_CHANNEL == 1
MAX_CHANNEL == 13

\* channel arguments of Radio(...): none, or channel 6
ChannelChoices == { NoneOpt, Opt(6) }
\* channel arguments of set_channel(...): the valid range's ends, channel 6
\* and the first value refused on either side
ChannelArgs == { MIN_CHANNEL - 1, MIN_CHANNEL, 6, MAX_CHANNEL, MAX_CHANNEL + 1 }
\* outcome of the channel change (wlan.config, or close and _init_radio)
ChangeOutcomes == { "ok", "fails" }

\* what set_channel leaves alone
channelFrame ==
    <<calVars, irq_pin, engineVars, histVars, cal_file, display_available,
      panel, obj, runVars, arg, displayVars, samplerVars, polls, foreVars,
      group, max_queue_size, stats, ticks, recv_pc, messages>>

\* variant: the handler of a failed change keeps the new channel
RevertChannel_KeepsNew(old_channel, c) == channel' = Opt(c)

\* except Exception: self._channel = old_channel
RevertChannel(old_channel, c) == channel' = old_channel

\* set_channel(c); wlan_active: self._wlan is set and reports active;
\* outcome: what the channel change does
SetChannel(c, wlan_active, outcome) ==
    /\ recv_pc = "idle"
    /\ IF ~(MIN_CHANNEL <= c /\ c <= MAX_CHANNEL)
       THEN /\ raised' = "ValueError"
            /\ UNCHANGED <<channel, radio_open, message_queue, last_error>>
       ELSE IF channel = Opt(c)
       THEN /\ raised' = "none"
            /\ UNCHANGED <<channel, radio_open, message_queue, last_error>>
       ELSE /\ message_queue' = <<>>
            \* the else branch closes the driver, _init_radio sets it up again
            /\ radio_open' = IF wlan_active THEN radio_open ELSE outcome = "ok"
            /\ IF outcome = "ok"
               THEN /\ channel' = Opt(c)
                    /\ raised' = "none"
                    /\ UNCHANGED last_error
               ELSE /\ RevertChannel(channel, c)
                    /\ last_error' = "Channel change failed"
                    /\ raised' = "RuntimeError"
    /\ last_call' = "set_channel" /\ ret' = NoneOpt
    /\ UNCHANGED channelFrame

\* receive_all(): messages = self._message_queue.copy()
ReceiveAllCopy ==
    /\ recv_pc = "idle"
    /\ messages' = message_queue
    /\ recv_pc' = "copied"
    /\ UNCHANGED <<message_queue, group, max_queue_size, stats, last_error, ticks,
                   channel, radio_open, last_call, ret, raised,
                   calVars, irq_pin, engineVars, histVars, cal_file, display_available,
                   panel, obj, runVars, arg, displayVars, samplerVars, polls, foreVars>>

\* receive_all(): self._message_queue.clear(); return messages
ReceiveAllClear ==
    /\ recv_pc = "copied"
    /\ message_queue' = <<>>
    /\ ret' = Opt(messages)
    /\ messages' = <<>>
    /\ recv_pc' = "idle"
    /\ last_call' = "receive_all" /\ raised' = "none"
    /\ UNCHANGED <<group, max_queue_size, stats, last_error, ticks,
                   channel, radio_open,
                   calVars, irq_pin, engineVars, histVars, cal_file, display_available,
                   panel, obj, runVars, arg, displayVars, samplerVars, polls, foreVars>>

\* Radio(channel=..., queue_size=2) on a board whose radio initialises
InitLink ==
    /\ DefaultCalibration
    /\ EngineInit
    /\ last_call = "none" /\ ret = NoneOpt
    /\ HistInit
    /\ cal_file = [kind |-> "absent"]
    /\ display_available = FALSE
    /\ panel = PanelRotated
    /\ obj = "none"
    /\ raised = "none"
    /\ RunIdle
    /\ arg = NoneVal
    /\ group = 1
    /\ max_queue_size = 2
    /\ message_queue = <<>>
    /\ stats = NoStats
    /\ last_error = "none"
    /\ ticks = 0
    /\ channel \in ChannelChoices
    /\ radio_open = TRUE
    /\ recv_pc = "idle" /\ messages = <<>>
    /\ DisplayDefault
    /\ SamplerIdle

\* the receive callback runs while the driver is set up, between any two
\* statements of the foreground
NextLink ==
    \/ \E f \in Frames : radio_open /\ OnMessageReceived(<<f>>, FALSE)
    \/ \E c \in ChannelArgs, wlan_active \in BOOLEAN, outcome \in ChangeOutcomes :
          SetChannel(c, wlan_active, outcome)
    \/ ReceiveAllCopy
    \/ ReceiveAllClear

SpecLink == InitLink /\ [][NextLink]_vars

---------------------------------------------------------------------------
(* easy_display.Display: pixel writes that go to the panel at once or are   *)
(* collected in a buffer between begin_drawing() and end_drawing()          *)

\* _validate_bounds(x, y)
ValidateBounds(p) == 0 <= p[1] /\ p[1] < width /\ 0 <= p[2] /\ p[2] < height

\* _block(x, y, x, y, pixel_data): one pixel of the panel written
Block(scr, p, color_val) == [scr EXCEPT ![p] = color_val]

\* self._pixel_buffer[(x, y)] = color_val on a buffer kept as a set of
\* <<pixel, colour>> pairs
BufferPut(buf, p, color_val) == { e \in buf : e[1] # p } \cup { <<p, color_val>> }

\* _buffered_pixel(x, y, color) on d = [buf, enabled, scr]
BufferedPixel(d, p, color_val) ==
    IF ~ValidateBounds(p)
    THEN d
    ELSE IF d.enabled
    THEN IF Cardinality(d.buf) >= MAX_BUFFERED_PIXELS
         THEN [d EXCEPT !.scr = Block(d.scr, p, color_val)]
         ELSE [d EXCEPT !.buf = BufferPut(d.buf, p, color_val)]
    ELSE [d EXCEPT !.scr = Block(d.scr, p, color_val)]

\* _start_buffering() on d
StartBuffering(d) == [d EXCEPT !.buf = {}, !.enabled = TRUE]

\* _flush_buffer() on d: the blocks written cover exactly the buffered
\* pixels, each with its colour
FlushBuffer(d) ==
    IF d.buf = {}
    THEN d
    ELSE [ buf |-> {}, enabled |-> FALSE,
           scr |-> [p \in PanelPixels |->
                      IF \E e \in d.buf : e[1] = p
                      THEN (CHOOSE e \in d.buf : e[1] = p)[2]
                      ELSE d.scr[p]] ]

\* the loop of draw_line over the pixels of the line
RECURSIVE PlotAll(_, _, _)
PlotAll(d, pixels, color_val) ==
    IF pixels = <<>>
    THEN d
    ELSE PlotAll(BufferedPixel(d, Head(pixels), color_val), Tail(pixels), color_val)

DisplayState == [buf |-> pixel_buffer, enabled |-> buffering_enabled, scr |-> lcd]

\* the display fields take the values of d
DisplayBecomes(d) ==
    /\ pixel_buffer' = d.buf
    /\ buffering_enabled' = d.enabled
    /\ lcd' = d.scr

\* what a display action leaves alone: the touch engine and the radio
displayFrame == <<touchVars, radioVars, samplerVars, polls, foreVars>>

\* begin_drawing()
BeginDrawing ==
    /\ DisplayBecomes(StartBuffering(DisplayState))
    /\ last_call' = "begin_drawing" /\ ret' = NoneOpt
    /\ UNCHANGED displayFrame

\* end_drawing()
EndDrawing ==
    /\ DisplayBecomes(FlushBuffer(DisplayState))
    /\ last_call' = "end_drawing" /\ ret' = NoneOpt
    /\ UNCHANGED displayFrame

\* draw_pixel(x, y, color) with p = (x, y)
DrawPixel(p, color_val) ==
    /\ DisplayBecomes(BufferedPixel(DisplayState, p, color_val))
    /\ last_call' = "draw_pixel" /\ ret' = NoneOpt
    /\ UNCHANGED displayFrame

\* draw_line(x1, y1, x2, y2, color) for a diagonal
DrawLine(line, color_val) ==
    /\ LET pixel_count == line[2] + 1
           was_buffering == pixel_count > 10 /\ ~buffering_enabled
           started == IF was_buffering THEN StartBuffering(DisplayState)
                                       ELSE DisplayState
           plotted == PlotAll(started, LinePixels(line), color_val)
       IN  DisplayBecomes(IF was_buffering THEN FlushBuffer(plotted) ELSE plotted)
    /\ last_call' = "draw_line" /\ ret' = NoneOpt
    /\ UNCHANGED displayFrame

\* clear(): the whole panel painted black, the buffer left as it is
Clear ==
    /\ lcd' = [p \in PanelPixels |-> BLACK]
    /\ last_call' = "clear" /\ ret' = NoneOpt
    /\ UNCHANGED <<pixel_buffer, buffering_enabled, displayFrame>>

\* Display() on a board whose panel initialises
InitDisplay ==
    /\ DefaultCalibration
    /\ EngineInit
    /\ last_call = "none" /\ ret = NoneOpt
    /\ HistInit
    /\ cal_file = [kind |-> "absent"]
    /\ display_available = TRUE
    /\ panel = PanelRotated
    /\ obj = "none"
    /\ raised = "none"
    /\ RunIdle
    /\ arg = NoneVal
    /\ RadioDefault
    /\ DisplayDefault
    /\ SamplerIdle

NextDisplay ==
    \/ BeginDrawing
    \/ EndDrawing
    \/ \E p \in PixelArgs, color_val \in Colours : DrawPixel(p, color_val)
    \/ \E line \in Lines, color_val \in Colours : DrawLine(line, color_val)
    \/ Clear

SpecDisplay == InitDisplay /\ [][NextDisplay]_vars

---------------------------------------------------------------------------
(* A long contact: the timer callback on a trajectory that is close to the  *)
(* history limit                                                            *)

\* timer callbacks in one behaviour
MaxPolls == 3

\* points collected so far by the contact in progress: the press only, one
\* point below the limit, the limit
SeedLengths == {1, MAX_POSITIONS - 1, MAX_POSITIONS}

\* the readings of the contact so far: the finger moves round three places
SeedReadings == << <<1145, 1376>>, <<1145, 1200>>, <<920, 1376>> >>

\* the trajectory after a press and n - 1 timer callbacks with valid samples
SeedPositions(n) ==
    [i \in 1..n |-> LET reading == SeedReadings[(i % 3) + 1]
                    IN  Normalize(reading[1], reading[2])]

\* a contact in progress that has collected n points for some n of
\* SeedLengths; nothing was classified before it
InitPoll ==
    /\ DefaultCalibration
    /\ irq_pin = 0
    /\ was_touched = FALSE
    /\ was_swiped_up = FALSE /\ was_swiped_down = FALSE
    /\ was_swiped_left = FALSE /\ was_swiped_right = FALSE
    /\ last_touch_x = -1 /\ last_touch_y = -1
    /\ touch_count = 0
    /\ touch_down = TRUE
    /\ is_currently_touched = TRUE
    /\ timer_active = TRUE
    /\ last_irq_time = irq_debounce_ms + 1
    /\ \E n \in SeedLengths :
          /\ touch_positions = SeedPositions(n)
          /\ start_x = SeedPositions(n)[1][1]
          /\ start_y = SeedPositions(n)[1][2]
          /\ current_touch_x = SeedPositions(n)[n][1]
          /\ current_touch_y = SeedPositions(n)[n][2]
    /\ last_call = "none" /\ ret = NoneVal
    /\ HistInit
    /\ cal_file = [kind |-> "absent"]
    /\ display_available = FALSE
    /\ panel = PanelRotated
    /\ obj = "live"
    /\ raised = "none"
    /\ RunIdle
    /\ arg = NoneVal
    /\ RadioDefault
    /\ DisplayDefault
    /\ SamplerIdle

\* the timer fires while it is initialised, whatever the length of the
\* trajectory; a touched panel returns any reading, a floating panel an
\* out-of-range one
PollStep(reading) ==
    /\ timer_active
    /\ polls < MaxPolls
    /\ reading \in (IF irq_pin = 0 THEN RawReadings ELSE FloatingReadings)
    /\ TimerPollCallback(reading)
    /\ polls' = polls + 1
    /\ last_call' = "none" /\ ret' = NoneVal
    /\ UNCHANGED <<calVars, irq_pin, histVars, lifeVars, runVars, arg, radioVars,
                   displayVars, samplerVars, foreVars>>

NextPoll ==
    \/ \E reading \in RawReadings : PollStep(reading)
    \/ \E gap \in EdgeGaps : ReleaseEdge(gap)
    \/ \E gap \in EdgeGaps, reading \in RawReadings : PressEdge(gap, reading)

SpecPoll == InitPoll /\ [][NextPoll]_vars

---------------------------------------------------------------------------
(* _raw_touch statement by statement: the select pin, the two bus reads     *)

\* bytes 1 and 2 of the three the controller returns for one channel
BusReplies ==
    { <<0, 0>>, <<3, 31>>, <<3, 32>>, <<35, 200>>, <<121, 224>>, <<121, 232>> }

\* ((bytes[1] << 8) | bytes[2]) >> 3
Position(reply) == (reply[1] * 256 + reply[2]) \div 8

\* what a _raw_touch step leaves alone
samplerFrame ==
    <<calVars, irq_pin, engineVars, histVars, cal_file, display_available,
      panel, obj, runVars, arg, radioVars, displayVars, polls, foreVars>>

\* _raw_touch is entered: self.cs.value(0)
RawTouchEnter ==
    /\ sample_pc = "idle"
    /\ cs' = 0
    /\ sample_pc' = "read_x"
    /\ last_call' = "_raw_touch"
    /\ UNCHANGED <<sample_x, sample_y, ret, raised, samplerFrame>>

\* variant: the handler of a bus exception leaves the select pin as it is
RawTouchExcept_LeavesSelected ==
    /\ UNCHANGED cs
    /\ ret' = NoneOpt
    /\ raised' = "none"
    /\ sample_pc' = "idle"

\* except Exception: self.cs.value(1); return None
RawTouchExcept ==
    /\ cs' = 1
    /\ ret' = NoneOpt
    /\ raised' = "none"
    /\ sample_pc' = "idle"

\* spi.write_readinto for the X channel: it raises, or x_raw is computed
ReadX(reply, bus_raises) ==
    /\ sample_pc = "read_x"
    /\ IF bus_raises
       THEN RawTouchExcept /\ UNCHANGED <<sample_x, sample_y>>
       ELSE /\ sample_x' = Position(reply)
            /\ sample_pc' = "read_y"
            /\ UNCHANGED <<cs, sample_y, ret, raised>>
    /\ UNCHANGED <<last_call, samplerFrame>>

\* spi.write_readinto for the Y channel: it raises, or y_raw is computed,
\* the select pin is raised and the pair is checked against the valid window
ReadY(reply, bus_raises) ==
    /\ sample_pc = "read_y"
    /\ IF bus_raises
       THEN RawTouchExcept /\ UNCHANGED <<sample_x, sample_y>>
       ELSE /\ sample_y' = Position(reply)
            /\ cs' = 1
            /\ ret' = IF RawTouch(<<sample_x, Position(reply)>>) = NoneVal
                      THEN NoneOpt
                      ELSE Opt(<<sample_x, Position(reply)>>)
            /\ raised' = "none"
            /\ sample_pc' = "idle"
            /\ UNCHANGED sample_x
    /\ UNCHANGED <<last_call, samplerFrame>>

\* a Touch object whose bus and pins were set up; no gesture in progress
InitSampler ==
    /\ DefaultCalibration
    /\ EngineInit
    /\ last_call = "none" /\ ret = NoneOpt
    /\ HistInit
    /\ cal_file = [kind |-> "absent"]
    /\ display_available = FALSE
    /\ panel = PanelRotated
    /\ obj = "live"
    /\ raised = "none"
    /\ RunIdle
    /\ arg = NoneVal
    /\ RadioDefault
    /\ DisplayDefault
    /\ SamplerIdle

NextSampler ==
    \/ RawTouchEnter
    \/ \E reply \in BusReplies, bus_raises \in BOOLEAN : ReadX(reply, bus_raises)
    \/ \E reply \in BusReplies, bus_raises \in BOOLEAN : ReadY(reply, bus_raises)

SpecSampler == InitSampler /\ [][NextSampler]_vars

\* the timer fires during a contact, in the middle of whatever the
\* foreground is doing: the callback runs _raw_touch from its first
\* statement to its last (select pin low, two reads, select pin high) and
\* records the sample
TimerSample(reading) ==
    /\ timer_active
    /\ polls < MaxPolls
    /\ reading \in (IF irq_pin = 0 THEN RawReadings ELSE FloatingReadings)
    /\ RawTouch(reading) # NoneVal => Len(touch_positions) < MaxTraj
    /\ TimerPollCallback(reading)
    /\ cs' = IF touch_down THEN 1 ELSE cs
    /\ polls' = polls + 1
    /\ UNCHANGED <<sample_pc, sample_x, sample_y, last_call, ret, raised>>
    /\ UNCHANGED <<calVars, irq_pin, histVars, cal_file, display_available, panel, obj,
                   runVars, arg, radioVars, displayVars, foreVars>>

\* a contact has just started: the press was sampled and the timer runs
InitPaired ==
    /\ InitPoll
    /\ Len(touch_positions) = 1

\* a foreground _raw_touch (get_raw_coordinates, diagnostics) statement
\* by statement, and the timer callback between any two of its statements
NextPaired ==
    \/ RawTouchEnter
    \/ \E reply \in BusReplies, bus_raises \in BOOLEAN : ReadX(reply, bus_raises)
    \/ \E reply \in BusReplies, bus_raises \in BOOLEAN : ReadY(reply, bus_raises)
    \/ \E reading \in RawReadings : TimerSample(reading)

SpecPaired == InitPaired /\ [][NextPaired]_vars

---------------------------------------------------------------------------
(* The hold on the first calibration target, with a finger that is not    *)
(* steady: the controller returns one of two readings while it is pressed *)

\* readings during the hold: the reading under the first target, a reading
\* ten counts to its right, and the reading of a floating panel
HoldReadings == { <<400, 500>>, <<410, 500>>, <<0, 0>> }

\* Touch() found no calibration file and a display: __init__ has entered
\* _auto_calibrate_with_display and shows the first target
InitHold ==
    /\ DefaultCalibration
    /\ EngineInit
    /\ last_call = "__init__" /\ ret = NoneOpt
    /\ HistInit
    /\ cal_file = [kind |-> "absent"]
    /\ display_available = TRUE
    /\ panel = PanelPlain
    /\ obj = "constructing"
    /\ raised = "none"
    /\ cal_pc = "hold" /\ cal_index = 1 /\ hold_time = 0
    /\ touch_samples = <<>> /\ raw_points = <<>>
    /\ cal_before = calVars
    /\ arg = NoneVal
    /\ RadioDefault
    /\ DisplayDefault
    /\ SamplerIdle

\* the polls of the first hold, then the capture of its point
NextHold ==
    \/ \E reading \in HoldReadings, irq_val \in {0, 1} :
          raw_points = <<>> /\ CalPoll(reading, irq_val)
    \/ CalCapture

SpecHold == InitHold /\ [][NextHold]_vars

---------------------------------------------------------------------------
(* Calibration on panels whose readings are linear in the screen position *)

\* a panel reading ax + bx * screen_x on one channel and ay + by * screen_y
\* on the other; sw tells whether the first channel is the Y channel
LinearPanel(ax, bx, ay, by, sw) ==
    [k \in 1..Len(cal_points) |->
        LET u == ax + bx * cal_points[k][1]
            v == ay + by * cal_points[k][2]
        IN  IF sw THEN <<v, u>> ELSE <<u, v>>]

\* ten counts per pixel on both axes, plain and with the axes exchanged and
\* reversed (PanelPlain and PanelRotated); one axis reversed; five counts
\* per pixel along the screen's x axis and ten along its y axis
LinearPanels ==
    { LinearPanel(200, 10, 300, 10, FALSE),
      LinearPanel(3400, -10, 2700, -10, TRUE),
      LinearPanel(3400, -10, 300, 10, FALSE),
      LinearPanel(400, 5, 300, 10, FALSE) }

\* no Touch object yet, no calibration file, a display and a linear panel
InitCal ==
    /\ DefaultCalibration
    /\ EngineInit
    /\ last_call = "none" /\ ret = NoneOpt
    /\ HistInit
    /\ cal_file = [kind |-> "absent"]
    /\ display_available = TRUE
    /\ panel \in LinearPanels
    /\ obj = "none"
    /\ raised = "none"
    /\ RunIdle
    /\ arg = NoneVal
    /\ RadioDefault
    /\ DisplayDefault
    /\ SamplerIdle

SpecCal == InitCal /\ [][NextLife]_vars

---------------------------------------------------------------------------
(* Vocabulary of the properties *)

\* the sticky flag of direction d
Flag(d) ==
    CASE d = "left" -> was_swiped_left
      [] d = "right" -> was_swiped_right
      [] d = "up" -> was_swiped_up
      [] d = "down" -> was_swiped_down

NoFlag == \A d \in Directions : ~Flag(d)
OnlyFlag(d) == \A e \in Directions : Flag(e) = (e = d)

\* the step is an accepted release edge: the contact in progress ends
ReleaseAccepted == touch_down /\ ~touch_down'

\* first and last point of the trajectory in progress, and its displacement
First == touch_positions[1]
Last == touch_positions[Len(touch_positions)]
Dx == Last[1] - First[1]
Dy == Last[2] - First[2]
Dist2 == Dx * Dx + Dy * Dy
TapMax2 == MAX_TAP_DISTANCE * MAX_TAP_DISTANCE
SwipeMin2 == MIN_SWIPE_DISTANCE * MIN_SWIPE_DISTANCE

\* point p lies in the rectangle b = (x, y, w, h)
PointIn(p, b) ==
    /\ b[1] <= p[1] /\ p[1] <= b[1] + b[3]
    /\ b[2] <= p[2] /\ p[2] <= b[2] + b[4]

\* screen positions of the four contact readings
PtA == <<100, 100>>
PtC == <<130, 100>>
PtD == <<100, 130>>

---------------------------------------------------------------------------
(* C1: with only a swipe in direction d latched, was_swiped(direction=e)  *)
(* for e # d returns false and leaves exactly the d flag set;             *)
(* was_swiped(direction=d) returns true and leaves no flag set; with no   *)
(* flag set every was_swiped call returns false, and a flag is set again  *)
(* only by the release of a contact.                                      *)
C1_DirectionalCoupling ==
    [][ /\ (last_call' = "was_swiped") =>
              /\ \A d \in Directions : OnlyFlag(d) =>
                    /\ \A e \in Directions \ {d} :
                          (ret' = FALSE /\ OnlyFlag(d)') \/ ~WasSwiped(e, NoneVal)
                    /\ (ret' = TRUE /\ NoFlag') \/ ~WasSwiped(d, NoneVal)
              /\ NoFlag => (ret' = FALSE /\ NoFlag')
        /\ (NoFlag /\ ~NoFlag') => ReleaseAccepted
      ]_vars

\* a left swipe is latched whose end points lie in every bounds argument,
\* and was_swiped has just returned false for a direction other than left,
\* the left flag still set
C1_Witness_Mismatch ==
    /\ last_call = "was_swiped"
    /\ ret = FALSE
    /\ OnlyFlag("left")
    /\ latched = {[dir |-> "left", start |-> PtC, end |-> PtA]}
    /\ ~touch_down
    /\ \A b \in BoundsArgs \ {NoneVal} :
          PointIn(<<start_x, start_y>>, b) /\ PointIn(<<last_touch_x, last_touch_y>>, b)

---------------------------------------------------------------------------
(* C2: was_swiped(bounds=rect) returns true only if a latched swipe that  *)
(* matches the requested direction has its start point and its end point  *)
(* inside rect, whatever contacts followed that swipe.                     *)
C2_BoundsBothEndpoints ==
    [][ \A a \in DirectionArgs, b \in BoundsArgs \ {NoneVal} :
          (WasSwiped(a, b) /\ ret' = TRUE) =>
              \E s \in latched :
                  /\ (a = NoDirection \/ Lower(a) = s.dir)
                  /\ PointIn(s.start, b)
                  /\ PointIn(s.end, b)
      ]_vars

---------------------------------------------------------------------------
(* C3: get_touches() returns the number of taps classified since the      *)
(* previous get_touches() or clear_touch_history() call and leaves the    *)
(* counter at zero; a call that immediately follows another returns 0;    *)
(* the counter changes only by a tap, get_touches or clear_touch_history. *)
C3_GetTouchesCountsAndResets ==
    [][ /\ GetTouches => (ret' = taps_since_get /\ touch_count' = 0)
        /\ (last_call = "get_touches" /\ GetTouches) => ret' = 0
        /\ (ReleaseAccepted /\ Dist2 > TapMax2) => touch_count' = touch_count
        /\ (touch_count' # touch_count) =>
              \/ GetTouches
              \/ ClearTouchHistory
              \/ (ReleaseAccepted /\ Dist2 <= TapMax2 /\ touch_count' = touch_count + 1)
      ]_vars

\* two taps were classified and get_touches() has just returned 2
C3_Witness_TwoTaps ==
    /\ last_call = "get_touches"
    /\ ret = 2
    /\ touch_count = 0

---------------------------------------------------------------------------
(* C4: was_touched() returns the value of the sticky tap flag and leaves  *)
(* it false; of two consecutive calls the second returns false, and the   *)
(* first returns true when a tap was pending.                              *)
C4_WasTouchedTrueThenFalse ==
    [][ /\ WasTouched => (ret' = was_touched /\ was_touched' = FALSE)
        /\ (last_call = "was_touched" /\ WasTouched) => ret' = FALSE
        /\ (taps_since_check > 0 /\ WasTouched) => ret' = TRUE
      ]_vars

\* a tap was pending and was_touched() has just returned true
C4_Witness_FirstCallTrue ==
    /\ last_call = "was_touched"
    /\ ret = TRUE
    /\ was_touched = FALSE

---------------------------------------------------------------------------
---------------------------------------------------------------------------
(* C6: on release, a displacement of at most MAX_TAP_DISTANCE sets the    *)
(* tap flag and adds one to the counter (no swipe flag changes); a        *)
(* displacement of at least MIN_SWIPE_DISTANCE sets a directional flag    *)
(* (tap flag and counter unchanged); a displacement strictly between sets *)
(* nothing.                                                                *)
C6_TapSwipeBoundary ==
    [][ ReleaseAccepted =>
          /\ Dist2 <= TapMax2 =>
                /\ was_touched' = TRUE
                /\ touch_count' = touch_count + 1
                /\ UNCHANGED swipeFlags
          /\ Dist2 >= SwipeMin2 =>
                /\ \E d \in Directions : Flag(d)'
                /\ \A d \in Directions : Flag(d) => Flag(d)'
                /\ UNCHANGED <<was_touched, touch_count>>
          /\ (Dist2 > TapMax2 /\ Dist2 < SwipeMin2) =>
                UNCHANGED <<was_touched, touch_count, swipeFlags>>
      ]_vars

\* a swipe of exactly 30 pixels is latched and a contact of exactly
\* 8 pixels has just been classified as a tap
C6_Witness_BothBoundaries ==
    /\ [dir |-> "right", start |-> PtA, end |-> PtC] \in latched
    /\ was_swiped_right
    /\ ~touch_down
    /\ start_x = 100 /\ start_y = 100
    /\ last_touch_x = 108 /\ last_touch_y = 100
    /\ was_touched
    /\ touch_count = 1

---------------------------------------------------------------------------
(* C7: the release of a swipe with displacement (dx, dy) sets the flag of *)
(* exactly one direction and changes no other: right if |dx| > |dy| and   *)
(* dx > 0, left if |dx| > |dy| and dx < 0, otherwise down if dy > 0 and   *)
(* up if dy < 0.                                                           *)
C7_SwipeDirection ==
    [][ (ReleaseAccepted /\ Dist2 >= SwipeMin2) =>
          \E d \in Directions :
              /\ \/ (d = "right" /\ Abs(Dx) > Abs(Dy) /\ Dx > 0)
                 \/ (d = "left" /\ Abs(Dx) > Abs(Dy) /\ Dx < 0)
                 \/ (d = "down" /\ Abs(Dx) <= Abs(Dy) /\ Dy > 0)
                 \/ (d = "up" /\ Abs(Dx) <= Abs(Dy) /\ Dy < 0)
              /\ Flag(d)'
              /\ \A e \in Directions \ {d} : Flag(e)' = Flag(e)
      ]_vars

\* a swipe with |dx| = |dy| has been classified, as a vertical one
C7_Witness_TieIsVertical ==
    /\ [dir |-> "down", start |-> PtC, end |-> PtD] \in latched
    /\ OnlyFlag("down")
    /\ start_x = 130 /\ start_y = 100
    /\ last_touch_x = 100 /\ last_touch_y = 130

---------------------------------------------------------------------------
(* C8: the release of a contact whose displacement lies strictly between  *)
(* MAX_TAP_DISTANCE and MIN_SWIPE_DISTANCE leaves the tap flag, the tap   *)
(* counter and the four swipe flags as they were.                          *)
C8_DeadZoneRaisesNoEvent ==
    [][ (ReleaseAccepted /\ Dist2 > TapMax2 /\ Dist2 < SwipeMin2) =>
          /\ was_touched' = was_touched
          /\ touch_count' = touch_count
          /\ was_swiped_left' = was_swiped_left
          /\ was_swiped_right' = was_swiped_right
          /\ was_swiped_up' = was_swiped_up
          /\ was_swiped_down' = was_swiped_down
      ]_vars

\* a contact of 22 pixels has just been released with a tap pending
C8_Witness_DeadZoneAfterTap ==
    /\ last_call = "none"
    /\ ~touch_down
    /\ start_x = 108 /\ start_y = 100
    /\ last_touch_x = 130 /\ last_touch_y = 100
    /\ was_touched
    /\ touch_count = 1
    /\ NoFlag

---------------------------------------------------------------------------
(* C9: is_touched() returns the most recent position of the contact when  *)
(* the engine is ACTIVE and None when it is IDLE, and changes nothing of  *)
(* the engine.                                                             *)
C9_IsTouchedIsLiveAndPure ==
    [][ IsTouched =>
          /\ touch_down => ret' = Last
          /\ ~touch_down => ret' = NoneVal
          /\ UNCHANGED <<eventVars, liveVars, start_x, start_y, last_irq_time>>
      ]_vars

\* is_touched() has just returned the position of the second sample of a
\* contact in progress
C9_Witness_LivePosition ==
    /\ last_call = "is_touched"
    /\ touch_down
    /\ Len(touch_positions) = 2
    /\ touch_positions[1] # touch_positions[2]
    /\ ret = touch_positions[2]

---------------------------------------------------------------------------
(* C10: get_last_touch_coords() returns the end point of the most recent  *)
(* contact classified as a tap or a swipe; the value is changed neither   *)
(* by is_touched, was_touched, get_touches and was_swiped nor by the      *)
(* release of a contact classified as neither.                             *)
C10_LastCoordsOfLastGesture ==
    [][ /\ GetLastTouchCoords => ret' = last_gesture_end
        /\ (last_call' \in {"is_touched", "was_touched", "get_touches", "was_swiped"})
              => UNCHANGED <<last_touch_x, last_touch_y>>
        /\ (ReleaseAccepted /\ Dist2 > TapMax2 /\ Dist2 < SwipeMin2)
              => UNCHANGED <<last_touch_x, last_touch_y>>
      ]_vars

---------------------------------------------------------------------------
(* C11: clear_touch_history() resets the tap flag, the four swipe flags   *)
(* and the tap counter and leaves the live-contact state as it was: the   *)
(* live flag, the current position, the ACTIVE/IDLE state, the timer and  *)
(* the trajectory in progress; the contact in progress at the call is     *)
(* classified by its release as any other contact is.                     *)
C11_ClearKeepsLiveContact ==
    [][ /\ (last_call' = "clear_touch_history") =>
              /\ ~was_touched' /\ NoFlag' /\ touch_count' = 0
              /\ UNCHANGED <<is_currently_touched, current_touch_x, current_touch_y,
                             touch_down, timer_active, touch_positions>>
        /\ (last_call = "clear_touch_history" /\ ReleaseAccepted) =>
              /\ Dist2 <= TapMax2 => (was_touched' /\ touch_count' = 1)
              /\ Dist2 >= SwipeMin2 =>
                    \A d \in Directions : d = SwipeDirection(Dx, Dy) => OnlyFlag(d)'
      ]_vars

\* clear_touch_history() has just returned during a contact that has moved
\* by a swipe's distance: the contact, its trajectory and the timer are live
C11_Witness_ClearedDuringContact ==
    /\ last_call = "clear_touch_history"
    /\ touch_down /\ is_currently_touched /\ timer_active
    /\ touch_positions = << PtA, PtC >>
    /\ <<current_touch_x, current_touch_y>> = PtC
    /\ last_irq_time > irq_debounce_ms + 1

---------------------------------------------------------------------------
(* C12: in every state between handler invocations the polling timer is   *)
(* active only while a contact is in progress (engine ACTIVE); after an   *)
(* accepted release edge, and throughout an IDLE period, it is stopped.   *)
C12_TimerOnlyWhileActive ==
    timer_active => (touch_down /\ is_currently_touched)

\* an accepted release edge has ended a contact whose timer was running:
\* the contact was classified as a tap, the engine is idle, the timer off
C12_Witness_StoppedOnRelease ==
    /\ ~touch_down /\ ~timer_active
    /\ irq_pin = 1
    /\ taps_since_check = 1
    /\ last_gesture_end = PtA

\* the calibration procedure was the last call to return, and returned v
CalReturned(v) ==
    IF last_call = "_auto_calibrate_with_display" /\ raised = "none"
    THEN ret = Opt(v)
    ELSE FALSE

---------------------------------------------------------------------------
(* C13: when the serial bus or the pins cannot be initialised, the        *)
(* constructor does not raise and leaves an object (whose queries then    *)
(* report nothing happening).                                              *)
C13_SetupFailureDoesNotRaise ==
    [][ \A a \in CtorArgs :
          Construct(a, FALSE) => (raised' = "none" /\ obj' # "none")
      ]_vars

---------------------------------------------------------------------------
(* C14: a calibration run in which fewer than four target holds succeed   *)
(* comes to an end: it returns failure, and the seven parameters (and the *)
(* factors computed from them) are what they were when it started.        *)
C14_FewHoldsReturnFailure ==
    (cal_pc = "hold" /\ Len(raw_points) < MIN_CAL_POINTS)
        ~> \/ Len(raw_points) >= MIN_CAL_POINTS
           \/ (cal_pc = "idle" /\ CalReturned(FALSE) /\ calVars = cal_before)

---------------------------------------------------------------------------
(* C15: whenever a Touch object exists, after its construction and after  *)
(* any calibrate() calls and calibration runs, x_max > x_min and          *)
(* y_max > y_min.                                                          *)
C15_BoundsOrdered ==
    obj = "live" => (x_max > x_min /\ y_max > y_min)

---------------------------------------------------------------------------
(* C16: for every raw input inside the valid window and every combination *)
(* of swap_xy, flip_x and flip_y, _normalize returns (x, y) with          *)
(* 0 <= x <= width - 1 and 0 <= y <= height - 1.                          *)
C16_NormalizeClamped ==
    (last_call = "_normalize") =>
        /\ RawTouch(arg) = arg
        /\ 0 <= ret[1] /\ ret[1] <= width - 1
        /\ 0 <= ret[2] /\ ret[2] <= height - 1

\* the corner of the valid window converted without swap and flips under
\* the default bounds: the rescaled values lie beyond the screen
C16_Witness_ClampActed ==
    /\ last_call = "_normalize"
    /\ arg = <<3900, 3900>>
    /\ ~swap_xy /\ ~flip_x /\ ~flip_y
    /\ <<x_min, x_max, y_min, y_max>> = <<100, 1962, 100, 1900>>
    /\ Normalize_NoClamp(arg[1], arg[2]) = <<653, 506>>
    /\ ret = <<319, 239>>

---------------------------------------------------------------------------
(* C17: _normalize equals the reference computation: exchange the raw     *)
(* values if swap_xy, rescale each axis as (raw - min) * dimension /      *)
(* (max - min) truncated to an integer, replace by dimension - 1 - value  *)
(* if the axis is flipped, clamp to [0, dimension - 1].                   *)
\* the quotient n / d with its fractional part dropped
Truncate(n, d) ==
    IF (n < 0) # (d < 0) THEN 0 - (Abs(n) \div Abs(d)) ELSE Abs(n) \div Abs(d)
Clamp(v, dimension) == IF v < 0 THEN 0 ELSE IF v > dimension - 1 THEN dimension - 1 ELSE v

ReferenceNormalize(raw) ==
    LET swapped == IF swap_xy THEN <<raw[2], raw[1]>> ELSE raw
        rx == Truncate((swapped[1] - x_min) * width, x_max - x_min)
        ry == Truncate((swapped[2] - y_min) * height, y_max - y_min)
        fx == IF flip_x THEN width - 1 - rx ELSE rx
        fy == IF flip_y THEN height - 1 - ry ELSE ry
    IN  << Clamp(fx, width), Clamp(fy, height) >>

C17_NormalizeMatchesReference ==
    (last_call = "_normalize") => ret = ReferenceNormalize(arg)

\* with all three flags set and the asymmetric bounds x 200..3400,
\* y 300..2700, the result for an interior point is the reference value and
\* differs from both reorderings
C17_Witness_OrderMatters ==
    /\ last_call = "_normalize"
    /\ swap_xy /\ flip_x /\ flip_y
    /\ <<x_min, x_max, y_min, y_max>> = <<200, 3400, 300, 2700>>
    /\ arg = <<1145, 1376>>
    /\ ret = ReferenceNormalize(arg)
    /\ ret # Normalize_SwapAfterRescale(arg[1], arg[2])
    /\ ret # Normalize_FlipBeforeRescale(arg[1], arg[2])

---------------------------------------------------------------------------
(* C18: without swap and flips the raw point (x_min, y_min) converts to   *)
(* (0, 0) and (x_max, y_max) to (width - 1, height - 1); under the bounds *)
(* x 100..1962, y 100..1900 on the 320x240 screen (100, 100) gives (0, 0) *)
(* and (1962, 1900) gives (319, 239).                                     *)
C18_CornersOfBounds ==
    (last_call = "_normalize" /\ ~swap_xy /\ ~flip_x /\ ~flip_y) =>
        /\ arg = <<x_min, y_min>> => ret = <<0, 0>>
        /\ arg = <<x_max, y_max>> => ret = <<width - 1, height - 1>>
        /\ <<x_min, x_max, y_min, y_max>> = <<100, 1962, 100, 1900>> =>
              /\ arg = <<100, 100>> => ret = <<0, 0>>
              /\ arg = <<1962, 1900>> => ret = <<319, 239>>

\* the upper corner of the default bounds has been converted: the rescale
\* gives (320, 240), the clamp (319, 239)
C18_Witness_UpperCorner ==
    /\ last_call = "_normalize"
    /\ ~swap_xy /\ ~flip_x /\ ~flip_y
    /\ <<x_min, x_max, y_min, y_max>> = <<100, 1962, 100, 1900>>
    /\ arg = <<1962, 1900>>
    /\ Normalize_NoClamp(arg[1], arg[2]) = <<width, height>>
    /\ ret = <<319, 239>>

---------------------------------------------------------------------------
(* C19: a constructor that finds no calibration file, or one that is not  *)
(* JSON, does not raise on hardware that initialises: the bounds are      *)
(* x 100..1962, y 100..1900, the orientation flags are the overrides or   *)
(* true, and the interactive calibration starts exactly when              *)
(* auto_calibrate is set and a display is available.                      *)
C19_MissingFileMeansDefaults ==
    [][ \A a \in CtorArgs :
          (cal_file.kind \in {"absent", "corrupt"} /\ Construct(a, TRUE)) =>
              /\ raised' = "none"
              /\ <<x_min', x_max', y_min', y_max'>> = <<100, 1962, 100, 1900>>
              /\ x_factor' = <<320, 1862>> /\ y_factor' = <<240, 1800>>
              /\ flip_x' = (a.flip_x # {FALSE})
              /\ flip_y' = (a.flip_y # {FALSE})
              /\ swap_xy' = (a.swap_xy # {FALSE})
              /\ (obj' = "constructing") = (a.auto_calibrate /\ display_available)
              /\ (obj' = "constructing") => (cal_pc' = "hold" /\ cal_index' = 1)
              /\ (obj' # "constructing") => (obj' = "live" /\ cal_pc' = "idle")
      ]_vars

\* a constructor with auto_calibrate has found a file that is not JSON and,
\* with a display available, shows the first calibration target
C19_Witness_CorruptFileStartsCalibration ==
    /\ cal_file.kind = "corrupt"
    /\ display_available
    /\ obj = "constructing"
    /\ last_call = "__init__"
    /\ cal_pc = "hold" /\ cal_index = 1 /\ hold_time = 0
    /\ <<x_min, x_max, y_min, y_max>> = <<100, 1962, 100, 1900>>

---------------------------------------------------------------------------
(* C20: the file holds the seven parameters of the object and the mark    *)
(* calibrated = true                                                       *)
FileHoldsParameters ==
    /\ cal_file.kind = "json"
    /\ DOMAIN cal_file.data = {"x_min", "x_max", "y_min", "y_max",
                               "flip_x", "flip_y", "swap_xy", "calibrated"}
    /\ cal_file.data.x_min = x_min /\ cal_file.data.x_max = x_max
    /\ cal_file.data.y_min = y_min /\ cal_file.data.y_max = y_max
    /\ cal_file.data.flip_x = flip_x /\ cal_file.data.flip_y = flip_y
    /\ cal_file.data.swap_xy = swap_xy
    /\ cal_file.data.calibrated = TRUE

\* constructor arguments without orientation overrides
NoOverrides(a) == a.flip_x = {} /\ a.flip_y = {} /\ a.swap_xy = {}

\* a constructor without overrides that finds a saved calibration uses
\* its seven values and does not start the interactive calibration
LoadUsesFile ==
    \A a \in CtorArgs :
        (NoOverrides(a) /\ cal_file.kind = "json" /\ Construct(a, TRUE)) =>
            /\ FileHoldsParameters'
            /\ obj' = "live" /\ cal_pc' = "idle"
            /\ raised' = "none"

(* C20 as stated: after a calibrate(..., save=True) that returns, and     *)
(* after a calibration run that returns success, the file holds the       *)
(* parameters of the object; a constructor without overrides then uses    *)
(* them and starts no calibration.                                         *)
C20_SaveAlwaysReachesFile ==
    [][ /\ \A a \in CalibrateArgs, outcome \in WriteOutcomes :
              (Calibrate(a, TRUE, outcome) /\ raised' = "none") => FileHoldsParameters'
        /\ \A outcome \in WriteOutcomes :
              (CalCompute(outcome) /\ CalReturned(TRUE)') => FileHoldsParameters'
        /\ LoadUsesFile
      ]_vars

(* C20 amended: the same when the write of the file succeeds; a write     *)
(* that fails leaves the call returning normally, with the file unchanged *)
(* or no longer JSON.                                                      *)
C20_SavedFileRoundTrip ==
    [][ /\ \A a \in CalibrateArgs :
              (Calibrate(a, TRUE, "ok") /\ raised' = "none") => FileHoldsParameters'
        /\ (CalCompute("ok") /\ CalReturned(TRUE)') => FileHoldsParameters'
        /\ \A a \in CalibrateArgs, outcome \in WriteOutcomes \ {"ok"} :
              (Calibrate(a, TRUE, outcome) /\ raised' = "none") =>
                  (cal_file' = cal_file \/ cal_file'.kind = "corrupt")
        /\ \A outcome \in WriteOutcomes \ {"ok"} :
              (CalCompute(outcome) /\ CalReturned(TRUE)') =>
                  (cal_file' = cal_file \/ cal_file'.kind = "corrupt")
        /\ LoadUsesFile
      ]_vars

\* a constructor, with a display available, has loaded the parameters a
\* calibration run measured on the plain panel and has started no run
C20_Witness_LoadedAfterRun ==
    /\ last_call = "__init__"
    /\ obj = "live" /\ cal_pc = "idle"
    /\ display_available
    /\ FileHoldsParameters
    /\ ~flip_x /\ ~flip_y /\ ~swap_xy
    /\ <<x_min, x_max, y_min, y_max>> = <<200, 3400, 300, 2700>>

---------------------------------------------------------------------------
(* Radio claims                                                             *)

\* a frame with a complete header and a payload at least as long as the
\* length byte says
FrameWellFormed(f) == Len(f) >= 2 /\ Len(f) - 2 >= f[2]

\* the receiver is promiscuous or the frame carries the receiver's group
FrameForReceiver(f) == group = 0 \/ f[1] = group

\* the callback ran with exactly frame f waiting and the driver did not fail
OneFrameArrived(f) == OnMessageReceived(<<f>>, FALSE)

\* after the step the newest queued message is the one made from frame f
QueuedLast(f) ==
    /\ message_queue' # <<>>
    /\ LET newest == message_queue'[Len(message_queue')]
       IN  IF FrameWellFormed(f)
           THEN newest = MessageInfo(f, ticks')
           ELSE newest.time = ticks'

\* send() made one attempt
SendStep == last_call' = "send" /\ stats' # stats

\* C21: send(message) returns True when the message was sent and False when
\* sending failed; a failure increments the errors statistic and no
\* exception escapes.
C21_SendReportsOutcome ==
    [][SendStep =>
          /\ raised' = "none"
          /\ (stats'.sent = stats.sent + 1) =>
                 (ret' = Opt(TRUE) /\ stats'.errors = stats.errors)
          /\ (stats'.sent = stats.sent) =>
                 (ret' = Opt(FALSE) /\ stats'.errors = stats.errors + 1)]_vars

\* C22: the queue never holds more than queue_size messages; a message that
\* arrives at a full queue removes the oldest queued message and is appended;
\* receive() returns the oldest message still queued.
C22_QueueBoundedOldestFirst ==
    /\ [](Len(message_queue) <= max_queue_size)
    /\ [][\A f \in Frames :
            (/\ OneFrameArrived(f)
             /\ FrameWellFormed(f) /\ FrameForReceiver(f)
             /\ Len(message_queue) >= max_queue_size)
            => /\ QueuedLast(f)
               /\ SubSeq(message_queue', 1, Len(message_queue') - 1)
                     = SubSeq(message_queue, 2, Len(message_queue))]_vars
    /\ [][(last_call' = "receive" /\ message_queue # <<>>)
            => /\ ret' = Opt(message_queue[1])
               /\ \A i \in 2..Len(message_queue) :
                     message_queue[i].time > message_queue[1].time
               /\ message_queue' = SubSeq(message_queue, 2, Len(message_queue))]_vars

\* C23: an arriving frame is queued exactly when it is well formed and the
\* receiver is promiscuous or in the frame's group; set_group never alters
\* the messages already queued.
C23_QueuedIffForReceiver ==
    /\ [][\A f \in Frames :
            OneFrameArrived(f)
            => (QueuedLast(f) <=> (FrameWellFormed(f) /\ FrameForReceiver(f)))]_vars
    /\ [][last_call' = "set_group" => message_queue' = message_queue]_vars

---------------------------------------------------------------------------
(* Display claim                                                            *)

\* C24: after end_drawing() returns the pixel buffer is empty and buffering
\* is disabled, whatever was drawn since begin_drawing(), so a draw_pixel
\* issued right after end_drawing() is written to the panel at once.
C24_EndDrawingEndsBuffering ==
    /\ [][last_call' = "end_drawing"
            => (pixel_buffer' = {} /\ ~buffering_enabled')]_vars
    /\ [][\A p \in PixelArgs \cap PanelPixels, color_val \in Colours :
            (last_call = "end_drawing" /\ DrawPixel(p, color_val))
            => lcd'[p] = color_val]_vars

---------------------------------------------------------------------------
(* Press, debounce, polling and sticky-flag claims                          *)

\* both raw values of a sample lie in the valid window
SampleValid(reading) ==
    /\ RAW_VALID_MIN <= reading[1] /\ reading[1] <= RAW_VALID_MAX
    /\ RAW_VALID_MIN <= reading[2] /\ reading[2] <= RAW_VALID_MAX

\* the step updates the debounce timestamp: the edge passed the gate
EdgeAccepted == last_irq_time' # last_irq_time

\* C25: an accepted press edge in IDLE takes one sample; a valid sample makes
\* the engine ACTIVE with the live flag set, the live position and the
\* one-point trajectory equal to the normalized sample and the timer
\* started; an invalid sample leaves the engine IDLE, the timer stopped and
\* every field but the debounce timestamp as it was.
C25_PressTransition ==
    [][(irq_pin = 1 /\ irq_pin' = 0 /\ ~touch_down /\ EdgeAccepted)
       => \A reading \in RawReadings :
             PressEdge(last_irq_time' - last_irq_time, reading)
             => IF SampleValid(reading)
                THEN /\ touch_down' /\ is_currently_touched' /\ timer_active'
                     /\ <<current_touch_x', current_touch_y'>>
                           = ReferenceNormalize(reading)
                     /\ touch_positions' = << ReferenceNormalize(reading) >>
                ELSE /\ ~touch_down' /\ ~timer_active'
                     /\ UNCHANGED <<eventVars, liveVars, start_x, start_y>>]_vars

\* an accepted press edge whose sample was invalid: the line is low, the
\* engine is IDLE and the timestamp is the one of this first accepted edge
C25_Witness_InvalidPressStaysIdle ==
    /\ irq_pin = 0 /\ ~touch_down /\ ~timer_active
    /\ last_irq_time = irq_debounce_ms + 1
    /\ touch_positions = <<>>

\* C26: an edge of the contact-detect line, press or release, changes the
\* engine only when more than 20 ms have passed since the last accepted
\* edge (the handler is entered at last_irq_time plus the time elapsed), so
\* two accepted edges are never 20 ms or less apart.
C26_EdgeDebounce ==
    [][(irq_pin' # irq_pin /\ engineVars' # engineVars)
       => last_irq_time' - last_irq_time > irq_debounce_ms]_vars

\* a release edge that came 20 ms after the press was not accepted: the
\* line is high and the engine is still ACTIVE with the timer running
C26_Witness_ReleaseRejected ==
    /\ irq_pin = 1 /\ touch_down /\ timer_active
    /\ last_irq_time = irq_debounce_ms + 1

\* C27: a timer callback in ACTIVE whose sample is invalid appends nothing,
\* leaves the live position alone and keeps the engine ACTIVE with the timer
\* running; the release that follows still classifies the trajectory.
C27_InvalidPollSkipped ==
    /\ [][\A reading \in RawReadings :
            (PollStep(reading) /\ touch_down /\ ~SampleValid(reading))
            => /\ UNCHANGED <<touch_positions, current_touch_x, current_touch_y>>
               /\ touch_down' /\ is_currently_touched' /\ timer_active']_vars
    /\ [][ReleaseAccepted
            => /\ Dist2 <= TapMax2 => was_touched'
               /\ Dist2 >= SwipeMin2 => \E d \in Directions : Flag(d)']_vars

\* one timer callback has run in the first contact and the trajectory still
\* holds the press point only
C27_Witness_PollSkipped ==
    /\ polls = 1 /\ touch_down /\ timer_active /\ irq_pin = 0
    /\ Len(touch_positions) = 1
    /\ last_irq_time = irq_debounce_ms + 1

\* C28: the trajectory never holds more than 50 points; a 51st point leaves
\* the most recent 25 in their order; the last element is the most recent
\* valid sample of the contact.
C28_TrajectoryBounded ==
    /\ [](Len(touch_positions) <= MAX_POSITIONS)
    /\ [](touch_down => (touch_positions # <<>>
                          /\ Last = <<current_touch_x, current_touch_y>>))
    /\ [][\A reading \in RawReadings :
            (PollStep(reading) /\ touch_down /\ SampleValid(reading))
            => LET all == Append(touch_positions, ReferenceNormalize(reading))
               IN  /\ touch_positions'[Len(touch_positions')] = ReferenceNormalize(reading)
                   /\ Len(touch_positions) = MAX_POSITIONS
                        => touch_positions' =
                             [i \in 1..KEEP_POSITIONS |->
                                all[Len(all) - KEEP_POSITIONS + i]]
                   /\ Len(touch_positions) < MAX_POSITIONS
                        => touch_positions' = all]_vars

\* the first callback of a contact that had collected 50 points cut the
\* trajectory to 25
C28_Witness_HistoryCut ==
    /\ polls = 1 /\ touch_down
    /\ Len(touch_positions) = KEEP_POSITIONS
    /\ last_irq_time = irq_debounce_ms + 1

\* C29: a latched tap flag is dropped only by was_touched() or
\* clear_touch_history(), a latched swipe flag only by a was_swiped(...)
\* that reports a swipe or by clear_touch_history(); edges, timer callbacks
\* and the other queries leave them set.
C29_FlagsSticky ==
    /\ [][(was_touched /\ ~was_touched')
            => last_call' \in {"was_touched", "clear_touch_history"}]_vars
    /\ [][\A d \in Directions :
            (Flag(d) /\ ~Flag(d)')
            => \/ last_call' = "clear_touch_history"
               \/ (last_call' = "was_swiped" /\ ret' = TRUE)]_vars

\* a tap is still latched after a later contact was classified as a swipe
C29_Witness_TapSurvivesSwipe ==
    /\ was_touched /\ Flag("right") /\ ~touch_down
    /\ last_call = "none"

\* C30: whenever _raw_touch is not executing, the select line is high, and
\* no exception leaves the sampler: a valid sample, an out-of-range sample
\* and a bus exception in either read all end with the line deasserted.
C30_SelectReleasedOnExit ==
    /\ sample_pc = "idle" => cs = 1
    /\ raised = "none"

\* the first call of the sampler ended in the exception handler before
\* x_raw was assigned
C30_Witness_BusExceptionExit ==
    /\ last_call = "_raw_touch" /\ sample_pc = "idle"
    /\ sample_x = -1
    /\ cs = 1 /\ ret = NoneOpt


---------------------------------------------------------------------------
(* C31: a calibration target is accepted only after ten polls in a row    *)
(* that each detect contact.  A poll that detects no contact sets the     *)
(* hold counter to zero and discards the samples collected so far, so the *)
(* point captured for the target is the average of exactly the ten        *)
(* samples of the last uninterrupted window.                              *)
Average(samples) ==
    IF samples = <<>> THEN NoneVal
    ELSE << SumCoord(samples, 1) \div Len(samples),
            SumCoord(samples, 2) \div Len(samples) >>

C31_HoldWindow ==
    [][ /\ hold_time' = Len(touch_samples')
        /\ (cal_pc = "hold" /\ cal_pc' \in {"hold", "capture"}) =>
              \/ /\ irq_pin' = 0
                 /\ hold_time' = hold_time + 1
                 /\ \E reading \in HoldReadings \cup { panel[cal_index] } :
                       /\ SampleValid(reading)
                       /\ touch_samples' = Append(touch_samples, reading)
              \/ /\ hold_time' = 0
                 /\ touch_samples' = <<>>
        /\ (cal_pc = "hold" /\ cal_pc' = "capture") => hold_time' = HOLD_POLLS
        /\ (cal_pc = "hold" /\ hold_time' < HOLD_POLLS) => cal_pc' = "hold"
        /\ (Len(raw_points') > Len(raw_points)) =>
              /\ cal_pc = "capture"
              /\ Len(touch_samples) = HOLD_POLLS
              /\ raw_points' = Append(raw_points, Average(touch_samples))
      ]_vars

\* the first target was captured from a window of five samples of each
\* reading, so some poll before the window had lost the contact or the
\* window itself holds both readings: the point is their mean
C31_Witness_MixedWindowAveraged ==
    /\ cal_index = 2
    /\ raw_points = << <<405, 500>> >>


---------------------------------------------------------------------------
(* C32: after a successful calibration on a panel whose readings are      *)
(* linear in the screen position, whatever the exchange and the direction *)
(* of its axes, _normalize maps the reading captured at each of the four  *)
(* corner targets to within 2 pixels of the target.                       *)

\* distance, on the worse axis, between target k and the screen position of
\* the reading under it
CornerError(k) ==
    LET p == Normalize(panel[k][1], panel[k][2])
    IN  Max(Abs(p[1] - cal_points[k][1]), Abs(p[2] - cal_points[k][2]))

C32_CornersRoundTrip ==
    CalReturned(TRUE) => \A k \in 1..4 : CornerError(k) <= 2


---------------------------------------------------------------------------
(* C33: set_channel(c) with 1 <= c <= 13 and c not the current channel:   *)
(* when the channel change fails the call raises and the recorded channel *)
(* is what it was before the call.  set_channel with the current channel  *)
(* changes nothing, the message queue included.                           *)
C33_SetChannelRevertsOnFailure ==
    [][ (last_call' = "set_channel") =>
          \A c \in MIN_CHANNEL..MAX_CHANNEL, wlan_active \in BOOLEAN :
             /\ \/ channel = Opt(c)
                \/ (raised' = "RuntimeError" /\ channel' = channel)
                \/ ~SetChannel(c, wlan_active, "fails")
             /\ \/ channel # Opt(c)
                \/ (raised' = "none" /\ UNCHANGED radioVars)
                \/ \A outcome \in ChangeOutcomes : ~SetChannel(c, wlan_active, outcome)
      ]_vars

\* a change from channel 6 has failed with the driver closed: the call
\* raised, channel 6 is still recorded
C33_Witness_FailedChangeReverted ==
    /\ last_call = "set_channel"
    /\ raised = "RuntimeError"
    /\ channel = Opt(6)
    /\ ~radio_open

\* set_channel(6) on channel 6 has returned with a message still queued
C33_Witness_SameChannelKeepsQueue ==
    /\ last_call = "set_channel"
    /\ raised = "none"
    /\ channel = Opt(6)
    /\ message_queue # <<>>


---------------------------------------------------------------------------
(* C38: receive_all() loses no queued message: a message the receive      *)
(* callback queues at any point during a receive_all() call is in the     *)
(* list the call returns or is still in the queue after it.               *)
C38_ReceiveAllLosesNothing ==
    [][ (recv_pc = "copied" /\ recv_pc' = "idle") =>
          \A i \in 1..Len(message_queue) :
             \/ \E returned \in ret' :
                   \E j \in 1..Len(returned) : returned[j] = message_queue[i]
             \/ \E j \in 1..Len(message_queue') : message_queue'[j] = message_queue[i]
      ]_vars


---------------------------------------------------------------------------
(* C34: when the contact-detect line reports no contact and no further    *)
(* edge arrives, the engine eventually has the live-contact flag false    *)
(* and the periodic timer stopped, for every contact, one whose release   *)
(* edge follows its press edge within the debounce interval included.     *)
C34_ReturnToIdle ==
    <>[](irq_pin = 1) => <>[](~is_currently_touched /\ ~timer_active)


---------------------------------------------------------------------------
(* C35: no tap count is lost under interleaving: when the release         *)
(* interrupt classifies a tap at any point during a get_touches() call,   *)
(* the value between its read of the counter and its reset included, the  *)
(* values returned by get_touches() plus the counter still add up to the  *)
(* taps classified: the value a call returns and the counter it leaves    *)
(* add up to the counter it found.                                        *)
C35_NoTapLost ==
    [][ (get_pc = "read" /\ get_pc' = "idle") => ret' + touch_count' = touch_count
      ]_vars


---------------------------------------------------------------------------
(* C36: paired reads are never interleaved: at most one X/Y sample        *)
(* transaction is in progress at any time.  The timer callback never      *)
(* begins a sample while a foreground sample has the device-select line   *)
(* asserted between its X read and its Y read.                            *)
C36_PairedReadsNotInterleaved ==
    [][ (polls' = polls + 1 /\ touch_down) => ~(sample_pc = "read_y" /\ cs = 0)
      ]_vars


---------------------------------------------------------------------------
(* C37: the start point used to classify a contact on release, which is   *)
(* also the one recorded for the bounds checks, is the position sampled   *)
(* at the press edge of that contact, however long the contact is,        *)
(* contacts that collect more than 50 samples included.                   *)
C37_StartIsPressPosition ==
    [][ (touch_down /\ ~touch_down') =>
          /\ <<start_x', start_y'>> = <<start_x, start_y>>
          /\ touch_positions[1] = <<start_x, start_y>>
      ]_vars


---------------------------------------------------------------------------
(* C39: an interactive calibration run is all-or-nothing: it returns      *)
(* success with swap_xy, flip_x, flip_y, the four bounds and the          *)
(* conversion factors updated and saved, or, when it fails or an error is *)
(* raised inside it, all of these parameters are what they were before    *)
(* the run.                                                               *)
C39_RunAllOrNothing ==
    [][ (cal_pc # "idle" /\ cal_pc' = "idle") =>
          IF raised' = "none" /\ ret' = Opt(TRUE)
          THEN FileHoldsParameters'
          ELSE calVars' = cal_before
      ]_vars


---------------------------------------------------------------------------
(* C40: whenever was_swiped(...) returns false (no swipe latched, the     *)
(* requested direction not latched, the bounds check failed, or a         *)
(* direction string it does not know), the call changes none of the four  *)
(* directional flags, the tap flag, the tap counter and the recorded      *)
(* start and end points.                                                  *)
C40_FalseChangesNothing ==
    [][ (last_call' = "was_swiped" /\ ret' = FALSE) =>
          UNCHANGED <<swipeFlags, was_touched, touch_count,
                      start_x, start_y, last_touch_x, last_touch_y>>
      ]_vars

\* was_swiped has returned false with a swipe to the right, a tap and a
\* tap count still latched
C40_Witness_FalseWithSwipeLatched ==
    /\ last_call = "was_swiped"
    /\ ret = FALSE
    /\ was_swiped_right
    /\ was_touched
    /\ touch_count = 1

=============================================================================
